---- MODULE Spec2Model ----
(***************************************************************************)
(* The auction room state machine of CAG-backend.                          *)
(*                                                                         *)
(* Two revisions of the server are modelled over one set of variables:     *)
(*   - src/index.js            (specification Spec,   actions without suffix) *)
(*   - src/unnamed/part_001    (specification SpecP1, actions with suffix P1), *)
(*     the revision that has the PRE_ROUND_TIMER status.                   *)
(* One room is modelled; rooms share no state but the registry.            *)
(*                                                                         *)
(* Each handler is a pure operator from a "world" record (the room's       *)
(* gameState, its timers and the messages sent while handling the event)   *)
(* to the world after the handler returned; an action commits that world.  *)
(***************************************************************************)
EXTENDS Integers, Sequences, FiniteSets, TLC

VARIABLES
  exists,                    \* rooms[roomCode] is defined
  cricketersMasterList,      \* the catalog fetched at start-up
  gameStatus, players, auctionPool, subPools, subPoolOrder,
  currentPlayerForAuction, auctionHistory, currentBid, highestBidderId,
  activePlayerId, masterBiddingOrder, biddingOrder, startingPlayerIndex,
  playersInRound, lastActionMessage, currentSubPoolName, nextSubPoolName,
  currentSubPoolOrderIndex, currentPlayerInSubPoolIndex, unsoldPool,
  isSecondRound,
  nextPlayerForAuction,      \* part_001 only (the peeked item)
  turnTimer,                 \* room.turnTimer: the tracked, cancellable timer
  roundTimers,               \* pending untracked setTimeout(nextPlayerLogic)
  preTimers,                 \* part_001: pending untracked continue closures
  clients,                   \* room.clients: session id -> connection
  userSessionId,             \* the userSessionId of each connection bound to the room
  outOfPhase                 \* environment: effective out-of-phase messages so far

vars == <<exists, cricketersMasterList,
  gameStatus, players, auctionPool, subPools, subPoolOrder,
  currentPlayerForAuction, auctionHistory, currentBid, highestBidderId,
  activePlayerId, masterBiddingOrder, biddingOrder, startingPlayerIndex,
  playersInRound, lastActionMessage, currentSubPoolName, nextSubPoolName,
  currentSubPoolOrderIndex, currentPlayerInSubPoolIndex, unsoldPool,
  isSecondRound, nextPlayerForAuction,
  turnTimer, roundTimers, preTimers,
  clients, userSessionId, outOfPhase>>

----------------------------------------------------------------------------
(* Bounds of the model *)

NumSessions == 2        \* session ids 1..NumSessions
MaxHistory == 3         \* cap on Len(auctionHistory) (the host can restart)
MaxRoundTimers == 1     \* cap on pending untracked post-round timers
MaxPreTimers == 1       \* cap on pending untracked pre-round closures (part_001)
MaxOutOfPhase == 1      \* cap on messages sent outside their phase that have an effect

(* Program constants *)

STARTING_BUDGET == 10000
MAX_PLAYERS_PER_ROOM == 4

Sessions == 1..NumSessions
NoId == 0                          \* null / '' / undefined player id
NaN == 0 - 1                       \* the NaN of (x + 1) % 0
UNSOLD == 0 - 2                    \* the winnerId 'UNSOLD' of an unsold history entry
NoItem == [id |-> 0, role |-> "none", basePrice |-> 0, overall |-> 0]

(* The catalog the server fetched: one batsman and one bowler, priced so    *)
(* that one or two bids exhaust a starting budget.                          *)
Catalog ==
  << [id |-> 1, role |-> "Batsman", basePrice |-> 9950, overall |-> 90],
     [id |-> 2, role |-> "Bowler",  basePrice |-> 9975, overall |-> 80] >>

(* quotas and the tier table of drawPlayersLogic, scaled down from          *)
(* 17/15/20/8 items in eight tiers to one tier of one item for two roles.   *)
quotas == [Batsman |-> 1, Bowler |-> 1]
roleOrder == <<"Batsman", "Bowler">>
tierTable ==
  << [name |-> "Batsmen 1", role |-> "Batsman", from |-> 0, to |-> 1],
     [name |-> "Bowlers 1", role |-> "Bowler",  from |-> 0, to |-> 1] >>
unsoldTable ==
  << [name |-> "Unsold Batsmen", role |-> "Batsman"],
     [name |-> "Unsold Bowlers", role |-> "Bowler"],
     [name |-> "Unsold All-Rounders", role |-> "All-Rounder"],
     [name |-> "Unsold Wicket-Keepers", role |-> "Wicket-Keeper"] >>

----------------------------------------------------------------------------
(* Helpers: the array operations the code uses *)

Range(s) == { s[i] : i \in DOMAIN s }
Includes(s, x) == x \in Range(s)
IndexOf(s, x) == IF x \in Range(s)
                 THEN CHOOSE i \in DOMAIN s : s[i] = x /\ \A j \in 1..(i-1) : s[j] # x
                 ELSE 0
Min(a, b) == IF a < b THEN a ELSE b
\* a JavaScript object used as a table, as its set of <<key, value>> pairs:
\* table[key] (0 when absent), table[key] = value, delete table[key]
Lookup(table, key) ==
  IF \E p \in table : p[1] = key THEN (CHOOSE p \in table : p[1] = key)[2] ELSE 0
Assign(table, key, value) == { p \in table : p[1] # key } \cup { <<key, value>> }
Delete(table, key) == { p \in table : p[1] # key }
\* slice(from, to) with the end index read as inclusive
Slice_EndInclusive(s, from, to) == SubSeq(s, from + 1, Min(to + 1, Len(s)))

\* Array.prototype.slice(from, to), 0-based, end exclusive
Slice(s, from, to) == SubSeq(s, from + 1, Min(to, Len(s)))
RECURSIVE SumSeq(_)
SumSeq(s) == IF s = <<>> THEN 0 ELSE Head(s) + SumSeq(Tail(s))
RECURSIVE Perms(_)
Perms(S) == IF S = {} THEN { <<>> }
            ELSE UNION { { <<x>> \o p : p \in Perms(S \ {x}) } : x \in S }
\* the orders shuffleArray can leave an array in
Shuffles(s) == { p \in Perms(Range(s)) : Len(p) = Len(s) }

\* getBidIncrement with the thresholds read as inclusive (<= instead of <)
getBidIncrement_InclusiveThresholds(bid) ==
  IF bid <= 100 THEN 5
  ELSE IF bid <= 200 THEN 10
  ELSE IF bid <= 500 THEN 20
  ELSE 25

getBidIncrement(bid) ==
  IF bid < 100 THEN 5
  ELSE IF bid < 200 THEN 10
  ELSE IF bid < 500 THEN 20
  ELSE 25

PlayerIds(ps) == [i \in DOMAIN ps |-> ps[i].id]
HasPlayer(ps, id) == \E i \in DOMAIN ps : ps[i].id = id
\* players.find(p => p.id === id), as an index (0 when not found)
FindPlayer(ps, id) == IF HasPlayer(ps, id)
                      THEN CHOOSE i \in DOMAIN ps : ps[i].id = id /\ \A j \in 1..(i-1) : ps[j].id # id
                      ELSE 0

----------------------------------------------------------------------------
(* The world record *)

World ==
  [ exists |-> exists,
    gameStatus |-> gameStatus, players |-> players, auctionPool |-> auctionPool,
    subPools |-> subPools, subPoolOrder |-> subPoolOrder,
    currentPlayerForAuction |-> currentPlayerForAuction,
    auctionHistory |-> auctionHistory, currentBid |-> currentBid,
    highestBidderId |-> highestBidderId, activePlayerId |-> activePlayerId,
    masterBiddingOrder |-> masterBiddingOrder, biddingOrder |-> biddingOrder,
    startingPlayerIndex |-> startingPlayerIndex, playersInRound |-> playersInRound,
    lastActionMessage |-> lastActionMessage,
    currentSubPoolName |-> currentSubPoolName, nextSubPoolName |-> nextSubPoolName,
    currentSubPoolOrderIndex |-> currentSubPoolOrderIndex,
    currentPlayerInSubPoolIndex |-> currentPlayerInSubPoolIndex,
    unsoldPool |-> unsoldPool, isSecondRound |-> isSecondRound,
    nextPlayerForAuction |-> nextPlayerForAuction,
    turnTimer |-> turnTimer, roundTimers |-> roundTimers, preTimers |-> preTimers,
    clients |-> clients, userSessionId |-> userSessionId,
    outbox |-> <<>> ]

WithinBounds(w) ==
  /\ Len(w.auctionHistory) <= MaxHistory
  /\ w.roundTimers <= MaxRoundTimers
  /\ w.preTimers <= MaxPreTimers

\* the game state and timers of a world (what a handler may change)
StateOf(w) == [w EXCEPT !.outbox = <<>>]

\* The world a handler leaves becomes the state; a handler that changed
\* nothing leaves every variable as it was.
Commit(w) ==
  IF StateOf(w) = World
  THEN UNCHANGED
    <<exists, cricketersMasterList, gameStatus, players, auctionPool, subPools,
      subPoolOrder, currentPlayerForAuction, auctionHistory, currentBid,
      highestBidderId, activePlayerId, masterBiddingOrder, biddingOrder,
      startingPlayerIndex, playersInRound, lastActionMessage, currentSubPoolName,
      nextSubPoolName, currentSubPoolOrderIndex, currentPlayerInSubPoolIndex,
      unsoldPool, isSecondRound, nextPlayerForAuction, turnTimer, roundTimers,
      preTimers, clients, userSessionId>>
  ELSE
  /\ WithinBounds(w)
  /\ exists' = w.exists
  /\ gameStatus' = w.gameStatus
  /\ players' = w.players
  /\ auctionPool' = w.auctionPool
  /\ subPools' = w.subPools
  /\ subPoolOrder' = w.subPoolOrder
  /\ currentPlayerForAuction' = w.currentPlayerForAuction
  /\ auctionHistory' = w.auctionHistory
  /\ currentBid' = w.currentBid
  /\ highestBidderId' = w.highestBidderId
  /\ activePlayerId' = w.activePlayerId
  /\ masterBiddingOrder' = w.masterBiddingOrder
  /\ biddingOrder' = w.biddingOrder
  /\ startingPlayerIndex' = w.startingPlayerIndex
  /\ playersInRound' = w.playersInRound
  /\ lastActionMessage' = w.lastActionMessage
  /\ currentSubPoolName' = w.currentSubPoolName
  /\ nextSubPoolName' = w.nextSubPoolName
  /\ currentSubPoolOrderIndex' = w.currentSubPoolOrderIndex
  /\ currentPlayerInSubPoolIndex' = w.currentPlayerInSubPoolIndex
  /\ unsoldPool' = w.unsoldPool
  /\ isSecondRound' = w.isSecondRound
  /\ nextPlayerForAuction' = w.nextPlayerForAuction
  /\ turnTimer' = w.turnTimer
  /\ roundTimers' = w.roundTimers
  /\ preTimers' = w.preTimers
  /\ clients' = w.clients
  /\ userSessionId' = w.userSessionId
  /\ UNCHANGED cricketersMasterList

\* The phase each client message belongs to (spec section 4.4): the statuses
\* in which a well-behaved client sends it.
Phase(type) ==
  CASE type = "JOIN_ROOM" -> {"LOBBY"}
    [] type = "DRAW_PLAYERS" -> {"LOBBY"}
    [] type = "START_GAME" -> {"AUCTION_POOL_VIEW"}
    [] type = "TOGGLE_READY" -> {"LOBBY", "SUBPOOL_BREAK"}
    [] type = "TOGGLE_READY_FOR_AUCTION" -> {"AUCTION_POOL_VIEW"}
    [] type = "CONTINUE_TO_NEXT_SUBPOOL" -> {"SUBPOOL_BREAK"}
    [] OTHER -> {"AUCTION"}

\* A client message is handled: the world it leaves is committed. A message
\* sent outside its phase that changes the state uses up the environment's
\* allowance of such messages.
Deliver(type, w) ==
  /\ outOfPhase' = IF gameStatus \in Phase(type) \/ StateOf(w) = World
                   THEN outOfPhase ELSE outOfPhase + 1
  /\ outOfPhase' <= MaxOutOfPhase
  /\ Commit(w)

\* A timer callback or a connection close is handled.
Handle(w) == Commit(w) /\ UNCHANGED outOfPhase

\* broadcast(roomCode, msg): sent only while the room is in the registry
broadcast(w, tag) ==
  IF w.exists THEN [w EXCEPT !.outbox = Append(@, [to |-> "room", msg |-> tag])] ELSE w
broadcastGameState(w) == broadcast(w, "GAME_STATE_UPDATE")
\* ws.send(...) to the connection that sent the message
sendTo(w, tag) == [w EXCEPT !.outbox = Append(@, [to |-> "sender", msg |-> tag])]

----------------------------------------------------------------------------
(* src/index.js: core game logic *)

NewPlayer(id, host) ==
  [id |-> id, budget |-> STARTING_BUDGET, squad |-> <<>>,
   isHost |-> host, isReady |-> host, readyForAuction |-> host]

createInitialGameState(w, hostSessionId) ==
  [w EXCEPT
     !.exists = TRUE,
     !.gameStatus = "LOBBY",
     !.players = << NewPlayer(hostSessionId, TRUE) >>,
     !.auctionPool = <<>>, !.subPools = <<>>, !.subPoolOrder = <<>>,
     !.currentPlayerForAuction = NoItem, !.auctionHistory = <<>>,
     !.currentBid = 0, !.highestBidderId = NoId, !.activePlayerId = NoId,
     !.masterBiddingOrder = <<>>, !.biddingOrder = <<>>,
     !.startingPlayerIndex = 0, !.playersInRound = <<>>,
     !.lastActionMessage = "Room created",
     !.currentSubPoolName = "", !.nextSubPoolName = "",
     !.currentSubPoolOrderIndex = 0, !.currentPlayerInSubPoolIndex = 0 - 1,
     !.unsoldPool = <<>>, !.isSecondRound = FALSE,
     !.nextPlayerForAuction = NoItem,
     !.turnTimer = [kind |-> "none", who |-> NoId]]

\* cricketersMasterList.filter(p => p.role === role)
OfRole(list, role) == SelectSeq(list, LAMBDA p : p.role = role)

\* The tables of drawPlayersLogic: the quotas (lines 213-215), the roles in
\* the order of lines 208-211, the nouns of the error lines 218-221, the
\* slices of lines 247-252 and the order of lines 254-257.
\* The tables as the code has them:
drawPlan ==
  [ quotas |-> ("Batsman" :> 17) @@ ("Bowler" :> 15)
                 @@ ("All-Rounder" :> 20) @@ ("Wicket-Keeper" :> 8),
    roles |-> <<"Batsman", "Bowler", "All-Rounder", "Wicket-Keeper">>,
    nouns |-> ("Batsman" :> "batsmen") @@ ("Bowler" :> "bowlers")
                @@ ("All-Rounder" :> "all-rounders")
                @@ ("Wicket-Keeper" :> "wicket-keepers"),
    tiers |->
      << [name |-> "Batsmen 1", role |-> "Batsman", from |-> 0, to |-> 8],
         [name |-> "Batsmen 2", role |-> "Batsman", from |-> 8, to |-> 17],
         [name |-> "Bowlers 1", role |-> "Bowler", from |-> 0, to |-> 7],
         [name |-> "Bowlers 2", role |-> "Bowler", from |-> 7, to |-> 15],
         [name |-> "All-Rounders 1", role |-> "All-Rounder", from |-> 0, to |-> 6],
         [name |-> "All-Rounders 2", role |-> "All-Rounder", from |-> 6, to |-> 13],
         [name |-> "All-Rounders 3", role |-> "All-Rounder", from |-> 13, to |-> 20],
         [name |-> "Wicket-Keepers", role |-> "Wicket-Keeper", from |-> 0, to |-> 8] >>,
    order |-> <<"Batsmen 1", "Bowlers 1", "All-Rounders 1", "Wicket-Keepers",
                "Batsmen 2", "All-Rounders 2", "Bowlers 2", "All-Rounders 3">> ]

\* The tables scaled down for the auction (quotas, roleOrder, tierTable above)
auctionPlan ==
  [ quotas |-> quotas, roles |-> roleOrder,
    nouns |-> [Batsman |-> "batsmen", Bowler |-> "bowlers"],
    tiers |-> tierTable,
    order |-> [i \in DOMAIN tierTable |-> tierTable[i].name] ]

\* the per-role shortfalls drawPlayersLogic reports
ShortfallsOf(plan, list) ==
  { r \in DOMAIN plan.quotas : Len(OfRole(list, r)) < plan.quotas[r] }

\* the subsets of S that have k elements
RECURSIVE KSubsets(_, _)
KSubsets(S, k) ==
  IF k = 0 THEN { {} }
  ELSE IF Cardinality(S) < k THEN {}
  ELSE LET x == CHOOSE y \in S : TRUE
       IN KSubsets(S \ {x}, k) \cup { T \cup {x} : T \in KSubsets(S \ {x}, k - 1) }

\* the orders sort((a, b) => b.overall - a.overall) can leave the items of T
\* in: descending by overall, items of equal overall in any order (the sort
\* is stable and runs on a shuffled array)
RECURSIVE SortedByOverall(_)
SortedByOverall(T) ==
  IF T = {} THEN { <<>> }
  ELSE UNION { { <<x>> \o p : p \in SortedByOverall(T \ {x}) } :
                 x \in { y \in T : \A z \in T : y.overall >= z.overall } }

\* what shuffle + slice(0, quota) + sort by overall (descending) can produce
SelectionsOf(plan, list, role) ==
  UNION { SortedByOverall(T) :
            T \in KSubsets(Range(OfRole(list, role)), plan.quotas[role]) }

\* one selection per role
RECURSIVE DrawsOver(_, _, _)
DrawsOver(plan, list, roles) ==
  IF roles = <<>> THEN { <<>> }
  ELSE { (Head(roles) :> p) @@ d :
           p \in SelectionsOf(plan, list, Head(roles)),
           d \in DrawsOver(plan, list, Tail(roles)) }

DrawsOf(plan, list) == DrawsOver(plan, list, plan.roles)

RECURSIVE ConcatRoles(_, _)
ConcatRoles(sel, roles) ==
  IF roles = <<>> THEN <<>> ELSE sel[Head(roles)] \o ConcatRoles(sel, Tail(roles))

\* errors.join(', ') over the roles in the order of lines 218-221
RECURSIVE errorsOf(_, _, _)
errorsOf(plan, list, roles) ==
  IF roles = <<>> THEN ""
  ELSE LET r == Head(roles)
           rest == errorsOf(plan, list, Tail(roles))
           line == "need " \o ToString(plan.quotas[r]) \o " " \o plan.nouns[r]
                     \o ", found " \o ToString(Len(OfRole(list, r)))
       IN IF Len(OfRole(list, r)) < plan.quotas[r]
          THEN (IF rest = "" THEN line ELSE line \o ", " \o rest)
          ELSE rest

errorMessageOf(plan, list) ==
  "Cannot draw players, insufficient numbers in database: "
    \o errorsOf(plan, list, plan.roles) \o "."

errorMessage(list) == errorMessageOf(auctionPlan, list)

\* drawPlayersLogic whose error path goes on to the pool view (no return at line 228)
drawPlayersLogic_ErrorOpensPoolView(w, list, sel) ==
  IF ~w.exists THEN w
  ELSE [broadcast(w, "ERROR: " \o errorMessage(list))
          EXCEPT !.lastActionMessage = "Error: " \o errorMessage(list),
                 !.gameStatus = "AUCTION_POOL_VIEW"]

drawPlayersLogicOf(plan, w, list, sel) ==
  IF ~w.exists THEN w
  ELSE IF ShortfallsOf(plan, list) # {}
  THEN [broadcast(w, "ERROR: " \o errorMessageOf(plan, list))
          EXCEPT !.lastActionMessage = "Error: " \o errorMessageOf(plan, list)]
  ELSE [w EXCEPT
     !.auctionPool = ConcatRoles(sel, plan.roles),
     !.subPools = [n \in { plan.tiers[i].name : i \in DOMAIN plan.tiers } |->
                     LET t == plan.tiers[CHOOSE i \in DOMAIN plan.tiers : plan.tiers[i].name = n]
                     IN Slice(sel[t.role], t.from, t.to)],
     !.subPoolOrder = plan.order,
     !.gameStatus = "AUCTION_POOL_VIEW",
     !.lastActionMessage = "Auction pool has been drawn!",
     !.players = [i \in DOMAIN w.players |->
                    [w.players[i] EXCEPT !.isReady = w.players[i].isHost,
                                         !.readyForAuction = w.players[i].isHost]]]

drawPlayersLogic(w, list, sel) == drawPlayersLogicOf(auctionPlan, w, list, sel)

ResetReady(ps) ==
  [i \in DOMAIN ps |-> IF ps[i].isHost THEN ps[i] ELSE [ps[i] EXCEPT !.isReady = FALSE]]

\* [...masterOrder.slice(startIndex), ...masterOrder.slice(0, startIndex)]
Rotate(masterOrder, startIndex) ==
  IF startIndex = NaN THEN masterOrder
  ELSE Slice(masterOrder, startIndex, Len(masterOrder)) \o Slice(masterOrder, 0, startIndex)

NextStartIndex(startIndex, len) ==
  IF startIndex = NaN \/ len = 0 THEN NaN ELSE (startIndex + 1) % len

\* the unsold pool partitioned by role, empty partitions dropped
FinalSubPoolOrder(unsold) ==
  LET names == [i \in DOMAIN unsoldTable |-> unsoldTable[i]]
      kept == SelectSeq(names, LAMBDA t : OfRole(unsold, t.role) # <<>>)
  IN [i \in DOMAIN kept |-> kept[i].name]

\* the partitions with the item that went unsold last put first
FinalSubPools_NewestFirst(unsold) ==
  [n \in Range(FinalSubPoolOrder(unsold)) |->
     LET pool == OfRole(unsold, unsoldTable[CHOOSE i \in DOMAIN unsoldTable :
                                                     unsoldTable[i].name = n].role)
     IN [i \in DOMAIN pool |-> pool[Len(pool) + 1 - i]]]

FinalSubPools(unsold) ==
  [n \in Range(FinalSubPoolOrder(unsold)) |->
     OfRole(unsold, unsoldTable[CHOOSE i \in DOMAIN unsoldTable : unsoldTable[i].name = n].role)]

\* the item is put up without the reset of highestBidderId (line 368)
StartRound_KeepsBidder(w, poolName, currentPool, nextPlayerIndex) ==
  LET nextPlayer == currentPool[nextPlayerIndex + 1]
      affordable == SelectSeq(w.players, LAMBDA p : p.budget >= nextPlayer.basePrice)
      inRound == PlayerIds(affordable)
      masterOrder == w.masterBiddingOrder
      startIndex == w.startingPlayerIndex
      order == SelectSeq(Rotate(masterOrder, startIndex), LAMBDA id : Includes(inRound, id))
  IN broadcastGameState(
       [w EXCEPT
          !.currentPlayerInSubPoolIndex = nextPlayerIndex,
          !.currentSubPoolName = poolName,
          !.currentPlayerForAuction = nextPlayer,
          !.currentBid = nextPlayer.basePrice,
          !.playersInRound = inRound,
          !.gameStatus = "AUCTION",
          !.biddingOrder = order,
          !.activePlayerId = IF order = <<>> THEN NoId ELSE order[1],
          !.startingPlayerIndex = NextStartIndex(startIndex, Len(masterOrder)),
          !.turnTimer = [kind |-> "live", who |-> NoId]])

\* the item is put up: lines 361-382
StartRound(w, poolName, currentPool, nextPlayerIndex) ==
  LET nextPlayer == currentPool[nextPlayerIndex + 1]
      affordable == SelectSeq(w.players, LAMBDA p : p.budget >= nextPlayer.basePrice)
      inRound == PlayerIds(affordable)
      masterOrder == w.masterBiddingOrder
      startIndex == w.startingPlayerIndex
      order == SelectSeq(Rotate(masterOrder, startIndex), LAMBDA id : Includes(inRound, id))
  IN broadcastGameState(
       [w EXCEPT
          !.currentPlayerInSubPoolIndex = nextPlayerIndex,
          !.currentSubPoolName = poolName,
          !.currentPlayerForAuction = nextPlayer,
          !.currentBid = nextPlayer.basePrice,
          !.highestBidderId = NoId,
          !.playersInRound = inRound,
          !.gameStatus = "AUCTION",
          !.biddingOrder = order,
          !.activePlayerId = IF order = <<>> THEN NoId ELSE order[1],
          !.startingPlayerIndex = NextStartIndex(startIndex, Len(masterOrder)),
          !.turnTimer = [kind |-> "live", who |-> NoId]])

nextPlayerLogic(w) ==
  IF ~w.exists THEN w
  ELSE
  LET nextPlayerIndex == w.currentPlayerInSubPoolIndex + 1
      currentSubPoolIndex == w.currentSubPoolOrderIndex
      hasName == (currentSubPoolIndex + 1) \in DOMAIN w.subPoolOrder
      poolName == IF hasName THEN w.subPoolOrder[currentSubPoolIndex + 1]
                  ELSE "undefined"
      hasPool == hasName /\ poolName \in DOMAIN w.subPools
      currentPool == IF hasPool THEN w.subPools[poolName] ELSE <<>>
      nextSubPoolIndex == currentSubPoolIndex + 1
  IN
  IF ~hasPool \/ nextPlayerIndex >= Len(currentPool)
  THEN
    IF nextSubPoolIndex >= Len(w.subPoolOrder)
    THEN
      IF w.isSecondRound \/ Len(w.unsoldPool) = 0
      THEN broadcastGameState([w EXCEPT !.gameStatus = "GAME_OVER",
                                        !.lastActionMessage = "The auction has concluded!"])
      ELSE
        LET finalSubPoolOrder == FinalSubPoolOrder(w.unsoldPool)
            finalSubPools == FinalSubPools(w.unsoldPool)
        IN IF Len(finalSubPoolOrder) = 0
           THEN broadcastGameState(
                  [w EXCEPT !.isSecondRound = TRUE,
                            !.gameStatus = "GAME_OVER",
                            !.lastActionMessage = "The auction has concluded! No unsold players"])
           ELSE broadcastGameState(
                  [w EXCEPT !.isSecondRound = TRUE,
                            !.subPools = finalSubPools,
                            !.subPoolOrder = finalSubPoolOrder,
                            !.currentSubPoolOrderIndex = 0,
                            !.currentPlayerInSubPoolIndex = 0 - 1,
                            !.gameStatus = "SUBPOOL_BREAK",
                            !.currentSubPoolName = "--- UNSOLD ROUND ---",
                            !.nextSubPoolName = finalSubPoolOrder[1],
                            !.players = ResetReady(w.players)])
    ELSE
      broadcastGameState(
        [w EXCEPT !.gameStatus = "SUBPOOL_BREAK",
                  !.currentSubPoolName = poolName,
                  !.nextSubPoolName = w.subPoolOrder[nextSubPoolIndex + 1],
                  !.players = ResetReady(w.players)])
  ELSE StartRound(w, poolName, currentPool, nextPlayerIndex)

startAuctionLogic(w, shuffled) ==
  IF ~w.exists THEN w
  ELSE nextPlayerLogic([w EXCEPT !.masterBiddingOrder = shuffled,
                                 !.startingPlayerIndex = 0,
                                 !.currentSubPoolOrderIndex = 0,
                                 !.currentPlayerInSubPoolIndex = 0 - 1])

continueToNextSubPoolLogic(w) ==
  IF ~w.exists THEN w
  ELSE nextPlayerLogic(
         [w EXCEPT !.currentSubPoolOrderIndex =
                      IF w.isSecondRound /\ w.currentSubPoolOrderIndex = 0 THEN @ ELSE @ + 1,
                   !.currentPlayerInSubPoolIndex = 0 - 1,
                   !.nextSubPoolName = ""])

endRoundLogic(w) ==
  IF ~w.exists \/ w.gameStatus = "ROUND_OVER" THEN w
  ELSE
  LET item == w.currentPlayerForAuction
      bidderIn == w.highestBidderId # NoId /\ Includes(w.playersInRound, w.highestBidderId)
      wi == FindPlayer(w.players, w.highestBidderId)
      sold == bidderIn /\ wi # 0
      winnerId == IF sold THEN w.players[wi].id ELSE UNSOLD
      winningBid == IF sold THEN w.currentBid ELSE 0
  IN broadcastGameState(
       [w EXCEPT
          !.turnTimer = [kind |-> "none", who |-> NoId],
          !.players = IF sold
                      THEN [@ EXCEPT ![wi].budget = @ - w.currentBid,
                                     ![wi].squad = Append(@, item)]
                      ELSE @,
          !.lastActionMessage = IF sold THEN "sold"
                                ELSE IF ~bidderIn THEN "was unsold" ELSE @,
          !.unsoldPool = IF sold THEN @ ELSE Append(@, item),
          !.auctionHistory = Append(@, [cricketer |-> item, winningBid |-> winningBid,
                                        winnerId |-> winnerId]),
          !.gameStatus = "ROUND_OVER",
          !.roundTimers = @ + 1])

\* the turn passed on without the while loop of lines 485-490
SkipLoop_NeverSkips(order, inRound, nextIndex, loopDetector) ==
  <<nextIndex, loopDetector>>

\* the while loop of lines 485-490: the index reached and the loop counter
RECURSIVE SkipLoop(_, _, _, _)
SkipLoop(order, inRound, nextIndex, loopDetector) ==
  IF ~Includes(inRound, order[nextIndex + 1]) /\ loopDetector < Len(order)
  THEN SkipLoop(order, inRound, (nextIndex + 1) % Len(order), loopDetector + 1)
  ELSE <<nextIndex, loopDetector>>

\* advanceTurn without the test of lines 494-497: the turn goes on to the
\* next player in the round even when that player holds the highest bid
advanceTurn_BidderGetsTurn(w, actionPlayerId, actionType) ==
  IF ~w.exists \/ w.gameStatus # "AUCTION" THEN w
  ELSE
  LET order == w.biddingOrder
      bidder == w.highestBidderId
      removes == actionType \in {"DROP", "TIMEOUT"}
      inRound == IF removes
                 THEN SelectSeq(w.playersInRound, LAMBDA id : id # actionPlayerId)
                 ELSE w.playersInRound
      w1 == [w EXCEPT
               !.turnTimer = [kind |-> "none", who |-> NoId],
               !.playersInRound = inRound,
               !.lastActionMessage =
                  IF removes /\ HasPlayer(w.players, actionPlayerId)
                  THEN (IF actionType = "TIMEOUT" THEN "timed out" ELSE "dropped")
                  ELSE @]
      Turn(id) == broadcastGameState(
                    [w1 EXCEPT !.activePlayerId = id,
                               !.turnTimer = [kind |-> "live", who |-> NoId]])
  IN
  IF Len(inRound) = 0 THEN endRoundLogic(w1)
  ELSE IF Len(inRound) = 1
  THEN IF bidder = NoId THEN Turn(inRound[1]) ELSE endRoundLogic(w1)
  ELSE
  LET currentActiveIndex == IndexOf(order, actionPlayerId) - 1
  IN IF currentActiveIndex = 0 - 1 THEN endRoundLogic(w1)
     ELSE
     LET found == SkipLoop(order, inRound,
                           (currentActiveIndex + 1) % Len(order), 0)
         nextPlayerId == order[found[1] + 1]
     IN IF found[2] >= Len(order) THEN endRoundLogic(w1)
        ELSE Turn(nextPlayerId)

\* advanceTurn with a TIMEOUT that leaves the player in the round (only DROP
\* takes the branch of lines 451-459)
advanceTurn_TimeoutKeepsPlayer(w, actionPlayerId, actionType) ==
  IF ~w.exists \/ w.gameStatus # "AUCTION" THEN w
  ELSE
  LET order == w.biddingOrder
      bidder == w.highestBidderId
      removes == actionType \in {"DROP"}
      inRound == IF removes
                 THEN SelectSeq(w.playersInRound, LAMBDA id : id # actionPlayerId)
                 ELSE w.playersInRound
      w1 == [w EXCEPT
               !.turnTimer = [kind |-> "none", who |-> NoId],
               !.playersInRound = inRound,
               !.lastActionMessage =
                  IF removes /\ HasPlayer(w.players, actionPlayerId)
                  THEN "dropped"
                  ELSE @]
      Turn(id) == broadcastGameState(
                    [w1 EXCEPT !.activePlayerId = id,
                               !.turnTimer = [kind |-> "live", who |-> NoId]])
  IN
  IF Len(inRound) = 0 THEN endRoundLogic(w1)
  ELSE IF Len(inRound) = 1
  THEN IF bidder = NoId THEN Turn(inRound[1]) ELSE endRoundLogic(w1)
  ELSE
  LET currentActiveIndex == IndexOf(order, actionPlayerId) - 1
  IN IF currentActiveIndex = 0 - 1 THEN endRoundLogic(w1)
     ELSE
     LET found == SkipLoop(order, inRound,
                           (currentActiveIndex + 1) % Len(order), 0)
         nextPlayerId == order[found[1] + 1]
     IN IF bidder # NoId /\ nextPlayerId = bidder THEN endRoundLogic(w1)
        ELSE IF found[2] >= Len(order) THEN endRoundLogic(w1)
        ELSE Turn(nextPlayerId)

advanceTurn(w, actionPlayerId, actionType) ==
  IF ~w.exists \/ w.gameStatus # "AUCTION" THEN w
  ELSE
  LET order == w.biddingOrder
      bidder == w.highestBidderId
      removes == actionType \in {"DROP", "TIMEOUT"}
      inRound == IF removes
                 THEN SelectSeq(w.playersInRound, LAMBDA id : id # actionPlayerId)
                 ELSE w.playersInRound
      w1 == [w EXCEPT
               !.turnTimer = [kind |-> "none", who |-> NoId],
               !.playersInRound = inRound,
               !.lastActionMessage =
                  IF removes /\ HasPlayer(w.players, actionPlayerId)
                  THEN (IF actionType = "TIMEOUT" THEN "timed out" ELSE "dropped")
                  ELSE @]
      Turn(id) == broadcastGameState(
                    [w1 EXCEPT !.activePlayerId = id,
                               !.turnTimer = [kind |-> "live", who |-> NoId]])
  IN
  IF Len(inRound) = 0 THEN endRoundLogic(w1)
  ELSE IF Len(inRound) = 1
  THEN IF bidder = NoId THEN Turn(inRound[1]) ELSE endRoundLogic(w1)
  ELSE
  LET currentActiveIndex == IndexOf(order, actionPlayerId) - 1
  IN IF currentActiveIndex = 0 - 1 THEN endRoundLogic(w1)
     ELSE
     LET found == SkipLoop(order, inRound,
                           (currentActiveIndex + 1) % Len(order), 0)
         nextPlayerId == order[found[1] + 1]
     IN IF bidder # NoId /\ nextPlayerId = bidder THEN endRoundLogic(w1)
        ELSE IF found[2] >= Len(order) THEN endRoundLogic(w1)
        ELSE Turn(nextPlayerId)

----------------------------------------------------------------------------
(* src/index.js: the message, close and timer handlers *)

\* the prelude of the message handler: the sender must be a player of its room
Admitted(w, s) == w.exists /\ HasPlayer(w.players, s)
Me(w, s) == w.players[FindPlayer(w.players, s)]

DrawChoicesOf(plan, list) ==
  IF ShortfallsOf(plan, list) # {} THEN { <<>> } ELSE DrawsOf(plan, list)

DrawChoices(list) == DrawChoicesOf(auctionPlan, list)

\* JOIN_ROOM naming session id s, sent on connection c (lines 540-557)
JoinRoomOn(w, c, s, known) ==
  IF ~(known /\ w.exists) THEN sendTo(w, "ERROR fatal: Room not found.")
  ELSE IF Len(w.players) >= MAX_PLAYERS_PER_ROOM THEN sendTo(w, "ERROR fatal: Room is full.")
  ELSE LET joined == IF ~HasPlayer(w.players, s)
                     THEN [w EXCEPT !.players = Append(@, NewPlayer(s, FALSE)),
                                    !.lastActionMessage = "has joined the lobby"]
                     ELSE w
       IN broadcastGameState(sendTo(
            [joined EXCEPT !.clients = Assign(@, s, c),
                           !.userSessionId = Assign(@, c, s)],
            "JOIN_SUCCESS"))

\* JOIN_ROOM with the capacity test read as > instead of >=
JoinRoom_AdmitsOneMore(w, s, known) ==
  IF ~(known /\ w.exists) THEN sendTo(w, "ERROR fatal: Room not found.")
  ELSE IF Len(w.players) > MAX_PLAYERS_PER_ROOM THEN sendTo(w, "ERROR fatal: Room is full.")
  ELSE LET joined == IF ~HasPlayer(w.players, s)
                     THEN [w EXCEPT !.players = Append(@, NewPlayer(s, FALSE)),
                                    !.lastActionMessage = "has joined the lobby"]
                     ELSE w
       IN broadcastGameState(sendTo(
            [joined EXCEPT !.clients = Assign(@, s, s),
                           !.userSessionId = Assign(@, s, s)],
            "JOIN_SUCCESS"))

\* JOIN_ROOM from session s on that session's connection
JoinRoom(w, s, known) == JoinRoomOn(w, s, s, known)

JOIN_ROOM(s, known) ==
  Deliver("JOIN_ROOM", JoinRoom(World, s, known))

DrawPlayers(w, s, list, sel) ==
  IF ~Admitted(w, s) THEN w
  ELSE IF Me(w, s).isHost THEN broadcastGameState(drawPlayersLogic(w, list, sel))
  ELSE w

\* the DRAW_PLAYERS handler with the tables as the code has them
DrawPlayersOf(plan, w, s, list, sel) ==
  IF ~Admitted(w, s) THEN w
  ELSE IF Me(w, s).isHost
  THEN broadcastGameState(drawPlayersLogicOf(plan, w, list, sel))
  ELSE w

DRAW_PLAYERS(s) ==
  /\ \E sel \in DrawChoices(cricketersMasterList) :
       Deliver("DRAW_PLAYERS", DrawPlayers(World, s, cricketersMasterList, sel))

StartGame(w, s, shuffled) ==
  IF ~Admitted(w, s) THEN w
  ELSE IF Me(w, s).isHost THEN startAuctionLogic(w, shuffled)
  ELSE w

START_GAME(s) ==
  /\ \E shuffled \in Shuffles(PlayerIds(players)) :
       Deliver("START_GAME", StartGame(World, s, shuffled))

ToggleReady(w, s) ==
  IF ~Admitted(w, s) THEN w
  ELSE broadcastGameState(
         [w EXCEPT !.players[FindPlayer(w.players, s)].isReady = ~@])

TOGGLE_READY(s) ==
  Deliver("TOGGLE_READY", ToggleReady(World, s))

ToggleReadyForAuction(w, s) ==
  IF ~Admitted(w, s) THEN w
  ELSE broadcastGameState(
         [w EXCEPT !.players[FindPlayer(w.players, s)].readyForAuction = ~@])

TOGGLE_READY_FOR_AUCTION(s) ==
  Deliver("TOGGLE_READY_FOR_AUCTION", ToggleReadyForAuction(World, s))

\* PLACE_BID without the test player.budget >= newBid
PlaceBid_NoBudgetCheck(w, s) ==
  IF ~Admitted(w, s) THEN w
  ELSE IF w.activePlayerId = s
  THEN LET increment == getBidIncrement(w.currentBid)
           newBid == w.currentBid + increment
       IN advanceTurn([w EXCEPT !.currentBid = newBid,
                                !.highestBidderId = s,
                                !.lastActionMessage = "bids"], s, "BID")
  ELSE w

\* PLACE_BID testing the budget against the current bid instead of the new bid
PlaceBid_ChecksCurrentBid(w, s) ==
  IF ~Admitted(w, s) THEN w
  ELSE IF w.activePlayerId = s
  THEN LET increment == getBidIncrement(w.currentBid)
           newBid == w.currentBid + increment
       IN IF Me(w, s).budget >= w.currentBid
          THEN advanceTurn([w EXCEPT !.currentBid = newBid,
                                     !.highestBidderId = s,
                                     !.lastActionMessage = "bids"], s, "BID")
          ELSE w
  ELSE w

PlaceBid(w, s) ==
  IF ~Admitted(w, s) THEN w
  ELSE IF w.activePlayerId = s
  THEN LET increment == getBidIncrement(w.currentBid)
           newBid == w.currentBid + increment
       IN IF Me(w, s).budget >= newBid
          THEN advanceTurn([w EXCEPT !.currentBid = newBid,
                                     !.highestBidderId = s,
                                     !.lastActionMessage = "bids"], s, "BID")
          ELSE w
  ELSE w

PLACE_BID(s) ==
  Deliver("PLACE_BID", PlaceBid(World, s))

\* PASS_TURN without the test activePlayerId === userSessionId
PassTurn_AnyPlayer(w, s) ==
  IF ~Admitted(w, s) THEN w
  ELSE advanceTurn([w EXCEPT !.lastActionMessage = "passed the turn"], s, "PASS")

\* PASS_TURN handled as a drop: the passing player leaves the round
PassTurn_AsDrop(w, s) ==
  IF ~Admitted(w, s) THEN w
  ELSE IF w.activePlayerId = s
  THEN advanceTurn([w EXCEPT !.lastActionMessage = "passed the turn"], s, "DROP")
  ELSE w

PassTurn(w, s) ==
  IF ~Admitted(w, s) THEN w
  ELSE IF w.activePlayerId = s
  THEN advanceTurn([w EXCEPT !.lastActionMessage = "passed the turn"], s, "PASS")
  ELSE w

PASS_TURN(s) ==
  Deliver("PASS_TURN", PassTurn(World, s))

DropFromRound(w, s) ==
  IF ~Admitted(w, s) THEN w
  ELSE IF w.activePlayerId = s THEN advanceTurn(w, s, "DROP")
  ELSE w

DROP_FROM_ROUND(s) ==
  Deliver("DROP_FROM_ROUND", DropFromRound(World, s))

AllReady(ps) == \A i \in DOMAIN ps : ps[i].isHost \/ ps[i].isReady

\* CONTINUE_TO_NEXT_SUBPOOL without the test of allReady
ContinueToNextSubPool_IgnoresReadiness(w, s) ==
  IF ~Admitted(w, s) THEN w
  ELSE IF Me(w, s).isHost THEN continueToNextSubPoolLogic(w)
  ELSE w

ContinueToNextSubPool(w, s) ==
  IF ~Admitted(w, s) THEN w
  ELSE IF Me(w, s).isHost /\ AllReady(w.players) THEN continueToNextSubPoolLogic(w)
  ELSE w

CONTINUE_TO_NEXT_SUBPOOL(s) ==
  Deliver("CONTINUE_TO_NEXT_SUBPOOL", ContinueToNextSubPool(World, s))

\* ws.on('close') of connection c (lines 588-614); the connection is gone
\* afterwards, and the client table goes with a room that is deleted
OnCloseOf(w0, c) ==
  LET s == Lookup(w0.userSessionId, c)
      w == [w0 EXCEPT !.userSessionId = Delete(@, c)]
  IN
  IF s = NoId \/ ~w.exists THEN w
  ELSE
  LET w1 == [w EXCEPT !.clients = Delete(@, s)]
  IN
  IF ~HasPlayer(w1.players, s) THEN w1
  ELSE
  LET gone == Me(w1, s)
      rest == SelectSeq(w1.players, LAMBDA p : p.id # s)
  IN IF Len(rest) = 0
     THEN [w1 EXCEPT !.players = rest,
                     !.turnTimer = [kind |-> "none", who |-> NoId],
                     !.clients = {},
                     !.exists = FALSE]
     ELSE broadcastGameState(
            IF gone.isHost
            THEN [w1 EXCEPT !.players = [rest EXCEPT ![1].isHost = TRUE,
                                                    ![1].isReady = TRUE,
                                                    ![1].readyForAuction = TRUE],
                            !.lastActionMessage = "(Host) disconnected"]
            ELSE [w1 EXCEPT !.players = rest,
                            !.lastActionMessage = "has left the game"])

\* the close handler without the host reassignment of lines 603-609
OnClose_NoNewHost(w, s) ==
  LET w0 == [w EXCEPT !.userSessionId = Delete(@, s)]
  IN
  IF Lookup(w.userSessionId, s) # s \/ ~w.exists THEN w0
  ELSE
  LET w1 == [w0 EXCEPT !.clients = Delete(@, s)]
      rest == SelectSeq(w1.players, LAMBDA p : p.id # s)
  IN IF ~HasPlayer(w1.players, s) THEN w1
     ELSE IF Len(rest) = 0
     THEN [w1 EXCEPT !.players = rest,
                     !.turnTimer = [kind |-> "none", who |-> NoId],
                     !.clients = {},
                     !.exists = FALSE]
     ELSE broadcastGameState([w1 EXCEPT !.players = rest,
                                        !.lastActionMessage = "has left the game"])

\* ws.on('close') of the connection of session s
OnClose(w, s) == OnCloseOf(w, s)

Close(s) ==
  Handle(OnClose(World, s))

\* the callback of room.turnTimer (lines 380, 470, 505)
TurnTimerFires ==
  /\ turnTimer.kind = "live"
  /\ Handle(advanceTurn([World EXCEPT !.turnTimer = [kind |-> "none", who |-> NoId]],
                        activePlayerId, "TIMEOUT"))

\* the callback of the untracked post-round timer (line 439)
RoundTimerFires ==
  /\ roundTimers > 0
  /\ Handle(nextPlayerLogic([World EXCEPT !.roundTimers = @ - 1]))

----------------------------------------------------------------------------
(* Specification of src/index.js *)

Blank ==
  [ exists |-> FALSE, gameStatus |-> "", players |-> <<>>, auctionPool |-> <<>>,
    subPools |-> <<>>, subPoolOrder |-> <<>>, currentPlayerForAuction |-> NoItem,
    auctionHistory |-> <<>>, currentBid |-> 0, highestBidderId |-> NoId,
    activePlayerId |-> NoId, masterBiddingOrder |-> <<>>, biddingOrder |-> <<>>,
    startingPlayerIndex |-> 0, playersInRound |-> <<>>, lastActionMessage |-> "",
    currentSubPoolName |-> "", nextSubPoolName |-> "",
    currentSubPoolOrderIndex |-> 0, currentPlayerInSubPoolIndex |-> 0,
    unsoldPool |-> <<>>, isSecondRound |-> FALSE, nextPlayerForAuction |-> NoItem,
    turnTimer |-> [kind |-> "none", who |-> NoId], roundTimers |-> 0,
    preTimers |-> 0, clients |-> {}, userSessionId |-> {}, outbox |-> <<>> ]

\* CREATE_ROOM (lines 530-539) with session id s, sent on the connection that
\* carries the same number
CREATE_ROOM(s) ==
  sendTo([createInitialGameState(Blank, s) EXCEPT
            !.clients = { <<s, s>> },
            !.userSessionId = { <<s, s>> }],
         "ROOM_CREATED")

InitWith(w, catalog) ==
  /\ cricketersMasterList = catalog
  /\ exists = w.exists
  /\ gameStatus = w.gameStatus
  /\ players = w.players
  /\ auctionPool = w.auctionPool
  /\ subPools = w.subPools
  /\ subPoolOrder = w.subPoolOrder
  /\ currentPlayerForAuction = w.currentPlayerForAuction
  /\ auctionHistory = w.auctionHistory
  /\ currentBid = w.currentBid
  /\ highestBidderId = w.highestBidderId
  /\ activePlayerId = w.activePlayerId
  /\ masterBiddingOrder = w.masterBiddingOrder
  /\ biddingOrder = w.biddingOrder
  /\ startingPlayerIndex = w.startingPlayerIndex
  /\ playersInRound = w.playersInRound
  /\ lastActionMessage = w.lastActionMessage
  /\ currentSubPoolName = w.currentSubPoolName
  /\ nextSubPoolName = w.nextSubPoolName
  /\ currentSubPoolOrderIndex = w.currentSubPoolOrderIndex
  /\ currentPlayerInSubPoolIndex = w.currentPlayerInSubPoolIndex
  /\ unsoldPool = w.unsoldPool
  /\ isSecondRound = w.isSecondRound
  /\ nextPlayerForAuction = w.nextPlayerForAuction
  /\ turnTimer = w.turnTimer
  /\ roundTimers = w.roundTimers
  /\ preTimers = w.preTimers
  /\ clients = w.clients
  /\ userSessionId = w.userSessionId
  /\ outOfPhase = 0

\* The room just created by session 1 (the sessions are interchangeable).
Init == InitWith(CREATE_ROOM(1), Catalog)

Next ==
  \/ \E s \in Sessions, known \in BOOLEAN : JOIN_ROOM(s, known)
  \/ \E s \in Sessions : DRAW_PLAYERS(s)
  \/ \E s \in Sessions : START_GAME(s)
  \/ \E s \in Sessions : TOGGLE_READY(s)
  \/ \E s \in Sessions : TOGGLE_READY_FOR_AUCTION(s)
  \/ \E s \in Sessions : PLACE_BID(s)
  \/ \E s \in Sessions : PASS_TURN(s)
  \/ \E s \in Sessions : DROP_FROM_ROUND(s)
  \/ \E s \in Sessions : CONTINUE_TO_NEXT_SUBPOOL(s)
  \/ \E s \in Sessions : Close(s)
  \/ TurnTimerFires
  \/ RoundTimerFires

Spec == Init /\ [][Next]_vars

----------------------------------------------------------------------------
(* The bidding of one item (src/index.js), for the increment table: the     *)
(* room of two players right after START_GAME, on a first item whose base   *)
(* price lies in each band of getBidIncrement.                              *)

\* the base prices the first item is given (one per band of the table)
BasePrices == {50, 150, 450, 999}

BidCatalogs ==
  { << [id |-> 1, role |-> "Batsman", basePrice |-> b, overall |-> 90],
       [id |-> 2, role |-> "Bowler",  basePrice |-> 9975, overall |-> 80] >> :
      b \in BasePrices }

\* the worlds in which sessions 1 (host) and 2 have just started the auction
\* of the catalog: CREATE_ROOM, JOIN_ROOM, DRAW_PLAYERS,
\* TOGGLE_READY_FOR_AUCTION, START_GAME
AuctionStarts(catalog) ==
  { StateOf(StartGame(ToggleReadyForAuction(
              DrawPlayers(JoinRoom(CREATE_ROOM(1), 2, TRUE), 1, catalog, sel), 2),
            1, shuffled)) :
      sel \in DrawChoices(catalog), shuffled \in Shuffles(<<1, 2>>) }

InitBid ==
  \E catalog \in BidCatalogs : \E w \in AuctionStarts(catalog) : InitWith(w, catalog)

NextBid ==
  \/ \E s \in Sessions : PLACE_BID(s)
  \/ \E s \in Sessions : PASS_TURN(s)
  \/ \E s \in Sessions : DROP_FROM_ROUND(s)
  \/ TurnTimerFires
  \/ RoundTimerFires

SpecBid == InitBid /\ [][NextBid]_vars

----------------------------------------------------------------------------
(* The lobby of a server whose catalog is short of a role (src/index.js)   *)

\* catalogs with fewer items of some role than its quota
ShortCatalogs ==
  { <<>>,
    << [id |-> 1, role |-> "Batsman", basePrice |-> 9950, overall |-> 90] >>,
    << [id |-> 2, role |-> "Bowler",  basePrice |-> 9975, overall |-> 80] >> }

InitShort == \E catalog \in ShortCatalogs : InitWith(CREATE_ROOM(1), catalog)

NextShort ==
  \/ \E s \in Sessions, known \in BOOLEAN : JOIN_ROOM(s, known)
  \/ \E s \in Sessions : DRAW_PLAYERS(s)
  \/ \E s \in Sessions : TOGGLE_READY(s)
  \/ \E s \in Sessions : TOGGLE_READY_FOR_AUCTION(s)
  \/ \E s \in Sessions : Close(s)

SpecShort == InitShort /\ [][NextShort]_vars

----------------------------------------------------------------------------
(* The lobby filling up (src/index.js): one session more than a room holds *)

JoinSessions == 1..(MAX_PLAYERS_PER_ROOM + 1)

NextJoin ==
  \/ \E s \in JoinSessions, known \in BOOLEAN : JOIN_ROOM(s, known)
  \/ \E s \in JoinSessions : Close(s)

SpecJoin == Init /\ [][NextJoin]_vars

----------------------------------------------------------------------------
(* The auction from START_GAME on (src/index.js), for termination: two      *)
(* players who stay connected, bid or drop in their turn, ready up at every *)
(* pool break, and a host who continues; every pending timer fires.         *)
(*                                                                          *)
(* auctionHistory is only appended to (line 430) and never read, and        *)
(* unsoldPool is read only when the second round is built (lines 305-312).  *)
(* So that a room that goes round in circles comes back to a state it was   *)
(* in, this specification keeps the last MaxHistory entries of the history, *)
(* and of the unsold pool once the second round is built.                   *)

Forget(w) ==
  LET Last(seq) == IF Len(seq) > MaxHistory
                   THEN SubSeq(seq, Len(seq) - MaxHistory + 1, Len(seq))
                   ELSE seq
  IN [w EXCEPT !.auctionHistory = Last(@),
               !.unsoldPool = IF w.isSecondRound THEN Last(@) ELSE @]

PlaceBidLive(s) ==
  /\ gameStatus = "AUCTION"
  /\ Deliver("PLACE_BID", Forget(PlaceBid(World, s)))

DropFromRoundLive(s) ==
  /\ gameStatus = "AUCTION"
  /\ Deliver("DROP_FROM_ROUND", Forget(DropFromRound(World, s)))

\* a player who is not ready at a pool break readies up
ReadyUpLive(s) ==
  /\ gameStatus = "SUBPOOL_BREAK" /\ Admitted(World, s) /\ ~Me(World, s).isReady
  /\ Deliver("TOGGLE_READY", Forget(ToggleReady(World, s)))

ContinueLive(s) ==
  /\ gameStatus = "SUBPOOL_BREAK"
  /\ Deliver("CONTINUE_TO_NEXT_SUBPOOL", Forget(ContinueToNextSubPool(World, s)))

TurnTimerFiresLive ==
  /\ turnTimer.kind = "live"
  /\ Handle(Forget(advanceTurn([World EXCEPT !.turnTimer = [kind |-> "none", who |-> NoId]],
                               activePlayerId, "TIMEOUT")))

RoundTimerFiresLive ==
  /\ roundTimers > 0
  /\ Handle(Forget(nextPlayerLogic([World EXCEPT !.roundTimers = @ - 1])))

InitLive == \E w \in AuctionStarts(Catalog) : InitWith(w, Catalog)

NextLive ==
  \/ \E s \in Sessions : PlaceBidLive(s)
  \/ \E s \in Sessions : DropFromRoundLive(s)
  \/ \E s \in Sessions : ReadyUpLive(s)
  \/ \E s \in Sessions : ContinueLive(s)
  \/ TurnTimerFiresLive
  \/ RoundTimerFiresLive

\* timers fire (the event loop runs every expired timer); at a pool break the
\* players ready up and the host continues
SpecLive ==
  /\ InitLive /\ [][NextLive]_vars
  /\ WF_vars(TurnTimerFiresLive) /\ WF_vars(RoundTimerFiresLive)
  /\ WF_vars(\E s \in Sessions : ReadyUpLive(s))
  /\ WF_vars(\E s \in Sessions : ContinueLive(s))

----------------------------------------------------------------------------
(* The bidding among three players (src/index.js), for the order of turns:  *)
(* the room right after START_GAME, on a first item that leaves room for    *)
(* four bids.                                                               *)

NumBidders == 3         \* sessions in the room when the auction starts

Bidders == 1..NumBidders

TurnCatalog ==
  << [id |-> 1, role |-> "Batsman", basePrice |-> 9900, overall |-> 90],
     [id |-> 2, role |-> "Bowler",  basePrice |-> 9975, overall |-> 80] >>

\* the lobby after session 1 created the room and sessions 2..n joined it
RECURSIVE Joined(_)
Joined(n) ==
  IF n <= 1 THEN StateOf(CREATE_ROOM(1))
  ELSE StateOf(JoinRoom(Joined(n - 1), n, TRUE))

\* the worlds in which the host has just started the auction of the catalog
TurnStarts ==
  LET lobby == Joined(NumBidders)
  IN { StateOf(StartGame(DrawPlayers(lobby, 1, TurnCatalog, sel), 1, shuffled)) :
         sel \in DrawChoices(TurnCatalog),
         shuffled \in Shuffles(PlayerIds(lobby.players)) }

InitTurn == \E w \in TurnStarts : InitWith(w, TurnCatalog)

NextTurn ==
  \/ \E s \in Bidders : PLACE_BID(s)
  \/ \E s \in Bidders : PASS_TURN(s)
  \/ \E s \in Bidders : DROP_FROM_ROUND(s)
  \/ TurnTimerFires
  \/ RoundTimerFires

SpecTurn == InitTurn /\ [][NextTurn]_vars

----------------------------------------------------------------------------
(* The draw of the pools (src/index.js) with the quotas and tiers of the    *)
(* code: a lobby whose host draws, from a catalog that has more batsmen and *)
(* bowlers than the quotas take.                                            *)

SpareBatsmen == 1       \* batsmen in the catalog beyond the quota
SpareBowlers == 1       \* bowlers in the catalog beyond the quota

\* n catalog rows of one role with ids first+1 .. first+n, rated 98, 97, ...
\* downwards; when tied, the rows 8 and 9 are rated alike
RowsOf(role, first, n, tied) ==
  [i \in 1..n |-> [id |-> first + i, role |-> role, basePrice |-> 100,
                   overall |-> IF tied /\ i = 9 THEN 99 - 8 ELSE 99 - i]]

FullCatalog ==
  LET nBat == drawPlan.quotas["Batsman"] + SpareBatsmen
      nBowl == drawPlan.quotas["Bowler"] + SpareBowlers
      nAll == drawPlan.quotas["All-Rounder"]
      nKeep == drawPlan.quotas["Wicket-Keeper"]
  IN RowsOf("Batsman", 0, nBat, TRUE) \o RowsOf("Bowler", nBat, nBowl, FALSE)
       \o RowsOf("All-Rounder", nBat + nBowl, nAll, FALSE)
       \o RowsOf("Wicket-Keeper", nBat + nBowl + nAll, nKeep, FALSE)

\* the host's client offers the draw in the lobby
DRAW_PLAYERS_Full(s) ==
  /\ gameStatus = "LOBBY"
  /\ \E sel \in DrawChoicesOf(drawPlan, cricketersMasterList) :
       Deliver("DRAW_PLAYERS",
               DrawPlayersOf(drawPlan, World, s, cricketersMasterList, sel))

InitDraw == InitWith(CREATE_ROOM(1), FullCatalog)

NextDraw ==
  \/ \E s \in Sessions, known \in BOOLEAN : JOIN_ROOM(s, known)
  \/ \E s \in Sessions : DRAW_PLAYERS_Full(s)
  \/ \E s \in Sessions : TOGGLE_READY(s)

SpecDraw == InitDraw /\ [][NextDraw]_vars

----------------------------------------------------------------------------
(* The first round up to the building of the second (src/index.js), with a  *)
(* role drawn in two tiers so that two items of one role can go unsold: two *)
(* players from START_GAME on.                                              *)

\* the tables of drawPlayersLogic scaled to two batsmen in two tiers, with
\* the bowlers' tier between them, and one bowler
twoTierPlan ==
  [ quotas |-> [Batsman |-> 2, Bowler |-> 1], roles |-> roleOrder,
    nouns |-> auctionPlan.nouns,
    tiers |-> << [name |-> "Batsmen 1", role |-> "Batsman", from |-> 0, to |-> 1],
                 [name |-> "Batsmen 2", role |-> "Batsman", from |-> 1, to |-> 2],
                 [name |-> "Bowlers 1", role |-> "Bowler", from |-> 0, to |-> 1] >>,
    order |-> <<"Batsmen 1", "Bowlers 1", "Batsmen 2">> ]

TwoTierCatalog ==
  << [id |-> 1, role |-> "Batsman", basePrice |-> 9950, overall |-> 90],
     [id |-> 2, role |-> "Bowler",  basePrice |-> 9975, overall |-> 80],
     [id |-> 3, role |-> "Batsman", basePrice |-> 9950, overall |-> 85] >>

\* the worlds in which the host has just started the auction of the catalog
TwoTierStarts ==
  { StateOf(StartGame(DrawPlayersOf(twoTierPlan, Joined(NumSessions), 1,
                                    TwoTierCatalog, sel), 1, shuffled)) :
      sel \in DrawChoicesOf(twoTierPlan, TwoTierCatalog),
      shuffled \in Shuffles(PlayerIds(Joined(NumSessions).players)) }

InitTwoTier == \E w \in TwoTierStarts : InitWith(w, TwoTierCatalog)

NextTwoTier ==
  \/ \E s \in Sessions : PLACE_BID(s)
  \/ \E s \in Sessions : PASS_TURN(s)
  \/ \E s \in Sessions : DROP_FROM_ROUND(s)
  \/ \E s \in Sessions : TOGGLE_READY(s)
  \/ \E s \in Sessions : CONTINUE_TO_NEXT_SUBPOOL(s)
  \/ TurnTimerFires
  \/ RoundTimerFires

SpecTwoTier == InitTwoTier /\ [][NextTwoTier]_vars

----------------------------------------------------------------------------
(* The connections of a lobby (src/index.js): sessions that join, re-join   *)
(* and toggle their readiness on any of a few connections, and connections  *)
(* that close.                                                              *)

NumConns == 3           \* connections 1..NumConns (a closed one may be opened anew)

JOIN_ROOM_On(c, s, known) ==
  Deliver("JOIN_ROOM", JoinRoomOn(World, c, s, known))

\* the prelude of the message handler (lines 523-528) on connection c, and
\* the TOGGLE_READY case
TOGGLE_READY_On(c) ==
  Deliver("TOGGLE_READY",
          IF Lookup(userSessionId, c) = NoId THEN World
          ELSE ToggleReady(World, Lookup(userSessionId, c)))

CloseOf(c) ==
  Handle(OnCloseOf(World, c))

\* The room just created by session 1 on connection 1.
InitConn == InitWith(CREATE_ROOM(1), Catalog)

NextConn ==
  \/ \E c \in 1..NumConns, s \in Sessions, known \in BOOLEAN : JOIN_ROOM_On(c, s, known)
  \/ \E c \in 1..NumConns : TOGGLE_READY_On(c)
  \/ \E c \in 1..NumConns : CloseOf(c)

SpecConn == InitConn /\ [][NextConn]_vars

----------------------------------------------------------------------------
(* src/unnamed/part_001: the revision with the PRE_ROUND_TIMER status *)

\* Object.keys(subPools).find(key => key.startsWith('Unsold') && subPools[key].length > 0)
FirstUnsoldPool(pools) ==
  LET found == SelectSeq(unsoldTable,
                         LAMBDA t : t.name \in DOMAIN pools /\ pools[t.name] # <<>>)
  IN IF found = <<>> THEN "undefined" ELSE found[1].name

peekNextPlayerForAuction(w) ==
  LET nextPlayerIndex == w.currentPlayerInSubPoolIndex + 1
      hasName == (w.currentSubPoolOrderIndex + 1) \in DOMAIN w.subPoolOrder
      poolName == IF hasName THEN w.subPoolOrder[w.currentSubPoolOrderIndex + 1]
                  ELSE "undefined"
      hasPool == hasName /\ poolName \in DOMAIN w.subPools
      currentPool == IF hasPool THEN w.subPools[poolName] ELSE <<>>
      nextSubPoolIndex == w.currentSubPoolOrderIndex + 1
  IN
  IF ~hasPool \/ nextPlayerIndex >= Len(currentPool)
  THEN
    IF nextSubPoolIndex >= Len(w.subPoolOrder)
    THEN
      LET nextUnsoldPoolName == FirstUnsoldPool(w.subPools)
      IN IF ~w.isSecondRound /\ Len(w.unsoldPool) > 0 /\ nextUnsoldPoolName # "undefined"
         THEN [w EXCEPT !.nextPlayerForAuction = w.subPools[nextUnsoldPoolName][1]]
         ELSE [w EXCEPT !.nextPlayerForAuction = NoItem]
    ELSE
      LET nextPoolName == w.subPoolOrder[nextSubPoolIndex + 1]
      IN [w EXCEPT !.nextPlayerForAuction =
            IF nextPoolName \in DOMAIN w.subPools /\ w.subPools[nextPoolName] # <<>>
            THEN w.subPools[nextPoolName][1] ELSE NoItem]
  ELSE [w EXCEPT !.nextPlayerForAuction = currentPool[nextPlayerIndex + 1]]

\* lines 308-328: the same statements as lines 361-382 of src/index.js
StartRoundP1(w, poolName, currentPool, nextPlayerIndex) ==
  StartRound(w, poolName, currentPool, nextPlayerIndex)

nextPlayerLogicP1(w0) ==
  IF ~w0.exists THEN w0
  ELSE
  LET w == [w0 EXCEPT !.nextPlayerForAuction = NoItem]
      nextPlayerIndex == w.currentPlayerInSubPoolIndex + 1
      currentSubPoolIndex == w.currentSubPoolOrderIndex
      hasName == (currentSubPoolIndex + 1) \in DOMAIN w.subPoolOrder
      poolName == IF hasName THEN w.subPoolOrder[currentSubPoolIndex + 1]
                  ELSE "undefined"
      hasPool == hasName /\ poolName \in DOMAIN w.subPools
      currentPool == IF hasPool THEN w.subPools[poolName] ELSE <<>>
      nextSubPoolIndex == currentSubPoolIndex + 1
  IN
  IF ~hasPool \/ nextPlayerIndex >= Len(currentPool)
  THEN
    IF nextSubPoolIndex >= Len(w.subPoolOrder)
    THEN
      IF w.isSecondRound \/ Len(w.unsoldPool) = 0
      THEN broadcastGameState([w EXCEPT !.gameStatus = "GAME_OVER",
                                        !.lastActionMessage = "The auction has concluded!"])
      ELSE
        LET finalSubPoolOrder == FinalSubPoolOrder(w.unsoldPool)
            finalSubPools == FinalSubPools(w.unsoldPool)
        IN IF Len(finalSubPoolOrder) = 0
           THEN broadcastGameState(
                  [w EXCEPT !.isSecondRound = TRUE,
                            !.gameStatus = "GAME_OVER",
                            !.lastActionMessage = "The auction has concluded! No unsold players"])
           ELSE broadcastGameState(
                  [w EXCEPT !.isSecondRound = TRUE,
                            !.subPools = finalSubPools,
                            !.subPoolOrder = finalSubPoolOrder,
                            !.currentSubPoolOrderIndex = 0,
                            !.currentPlayerInSubPoolIndex = 0 - 1,
                            !.gameStatus = "SUBPOOL_BREAK",
                            !.currentSubPoolName = poolName,
                            !.nextSubPoolName = finalSubPoolOrder[1],
                            !.players = ResetReady(w.players)])
    ELSE
      broadcastGameState(
        [w EXCEPT !.gameStatus = "SUBPOOL_BREAK",
                  !.currentSubPoolName = poolName,
                  !.nextSubPoolName = w.subPoolOrder[nextSubPoolIndex + 1],
                  !.currentPlayerForAuction = NoItem,
                  !.players = ResetReady(w.players)])
  ELSE StartRoundP1(w, poolName, currentPool, nextPlayerIndex)

\* the countdown is an untracked setTimeout(() => nextPlayerLogic(roomCode))
startAuctionLogicP1(w, shuffled) ==
  IF ~w.exists THEN w
  ELSE broadcastGameState([w EXCEPT !.masterBiddingOrder = shuffled,
                                    !.startingPlayerIndex = 0,
                                    !.currentSubPoolOrderIndex = 0,
                                    !.currentPlayerInSubPoolIndex = 0 - 1,
                                    !.gameStatus = "PRE_ROUND_TIMER",
                                    !.roundTimers = @ + 1])

\* the countdown is an untracked closure over the room object (lines 339-347)
continueToNextSubPoolLogicP1(w) ==
  IF ~w.exists THEN w
  ELSE broadcastGameState([peekNextPlayerForAuction(w) EXCEPT
                              !.gameStatus = "PRE_ROUND_TIMER",
                              !.preTimers = @ + 1])

endRoundLogicP1(w) ==
  IF ~w.exists \/ w.gameStatus = "ROUND_OVER" THEN w
  ELSE
  LET item == w.currentPlayerForAuction
      potentialWinnerId ==
        IF w.highestBidderId # NoId THEN w.highestBidderId
        ELSE IF Len(w.playersInRound) = 1 THEN w.playersInRound[1] ELSE NoId
      wi == FindPlayer(w.players, potentialWinnerId)
      sold == /\ potentialWinnerId # NoId
              /\ Includes(w.playersInRound, potentialWinnerId)
              /\ wi # 0
              /\ w.highestBidderId # NoId
  IN broadcastGameState(
       peekNextPlayerForAuction(
         [w EXCEPT
            !.turnTimer = [kind |-> "none", who |-> NoId],
            !.players = IF sold
                        THEN [@ EXCEPT ![wi].budget = @ - w.currentBid,
                                       ![wi].squad = Append(@, item)]
                        ELSE @,
            !.lastActionMessage = IF sold THEN "sold" ELSE "was unsold",
            !.unsoldPool = IF sold THEN @ ELSE Append(@, item),
            !.auctionHistory =
               Append(@, [cricketer |-> item,
                          winningBid |-> IF sold THEN w.currentBid ELSE 0,
                          winnerId |-> IF sold THEN w.players[wi].id ELSE UNSOLD]),
            !.gameStatus = "ROUND_OVER",
            !.roundTimers = @ + 1]))

\* the for loop of lines 428-435: the first i in 1..length whose player is
\* still in the round, 0 when there is none
RECURSIVE ForLoop(_, _, _, _)
ForLoop(order, inRound, currentActiveIndex, i) ==
  IF i > Len(order) THEN 0
  ELSE IF Includes(inRound, order[((currentActiveIndex + i) % Len(order)) + 1]) THEN i
  ELSE ForLoop(order, inRound, currentActiveIndex, i + 1)

advanceTurnP1(w, actingPlayerId, actionType) ==
  IF ~w.exists \/ w.gameStatus # "AUCTION" \/ w.activePlayerId # actingPlayerId THEN w
  ELSE
  LET order == w.biddingOrder
      bidder == w.highestBidderId
      removes == actionType \in {"DROP", "TIMEOUT"}
      inRound == IF removes
                 THEN SelectSeq(w.playersInRound, LAMBDA id : id # actingPlayerId)
                 ELSE w.playersInRound
      w1 == [w EXCEPT
               !.turnTimer = [kind |-> "none", who |-> NoId],
               !.playersInRound = inRound,
               !.lastActionMessage =
                  IF ~HasPlayer(w.players, actingPlayerId) THEN @
                  ELSE IF actionType = "TIMEOUT" THEN "timed out"
                  ELSE IF actionType = "DROP" THEN "dropped"
                  ELSE IF actionType = "PASS" THEN "passed"
                  ELSE @]
  IN
  IF Len(inRound) <= 1 THEN endRoundLogicP1(w1)
  ELSE
  LET currentActiveIndex == IndexOf(order, actingPlayerId) - 1
      i == ForLoop(order, inRound, currentActiveIndex, 1)
      nextPlayerId == IF i = 0 THEN NoId
                      ELSE order[((currentActiveIndex + i) % Len(order)) + 1]
  IN IF bidder # NoId /\ nextPlayerId = bidder THEN endRoundLogicP1(w1)
     ELSE broadcastGameState(
            [w1 EXCEPT !.activePlayerId = nextPlayerId,
                       !.turnTimer = [kind |-> "captured", who |-> nextPlayerId]])

(* part_001: the message, close and timer handlers.  JOIN_ROOM, DRAW_PLAYERS,
   the two toggles and the close handler are the statements of src/index.js. *)

JoinRoomP1(w, s, known) == JoinRoom(w, s, known)

JOIN_ROOM_P1(s, known) ==
  Deliver("JOIN_ROOM", JoinRoomP1(World, s, known))

DrawPlayersP1(w, s, list, sel) == DrawPlayers(w, s, list, sel)

DRAW_PLAYERS_P1(s) ==
  \E sel \in DrawChoices(cricketersMasterList) :
     Deliver("DRAW_PLAYERS", DrawPlayersP1(World, s, cricketersMasterList, sel))

StartGameP1(w, s, shuffled) ==
  IF ~Admitted(w, s) THEN w
  ELSE IF Me(w, s).isHost THEN startAuctionLogicP1(w, shuffled)
  ELSE w

START_GAME_P1(s) ==
  \E shuffled \in Shuffles(PlayerIds(players)) :
     Deliver("START_GAME", StartGameP1(World, s, shuffled))

ToggleReadyP1(w, s) == ToggleReady(w, s)

TOGGLE_READY_P1(s) ==
  Deliver("TOGGLE_READY", ToggleReadyP1(World, s))

ToggleReadyForAuctionP1(w, s) == ToggleReadyForAuction(w, s)

TOGGLE_READY_FOR_AUCTION_P1(s) ==
  Deliver("TOGGLE_READY_FOR_AUCTION", ToggleReadyForAuctionP1(World, s))

\* advanceTurn(roomCode, ...) names a variable that is not in scope: evaluating
\* the argument throws a ReferenceError, which the handler's catch logs.  The
\* assignments made before the call stay; advanceTurn is never entered.
PlaceBidP1(w, s) ==
  IF ~Admitted(w, s) THEN w
  ELSE IF w.activePlayerId = s
  THEN LET increment == getBidIncrement(w.currentBid)
           newBid == w.currentBid + increment
       IN IF Me(w, s).budget >= newBid
          THEN [w EXCEPT !.currentBid = newBid,
                         !.highestBidderId = s,
                         !.lastActionMessage = "bids"]
          ELSE w
  ELSE w

PLACE_BID_P1(s) ==
  Deliver("PLACE_BID", PlaceBidP1(World, s))

PassTurnP1(w, s) ==
  IF ~Admitted(w, s) THEN w
  ELSE IF w.activePlayerId = s THEN w    \* ReferenceError, caught
  ELSE w

PASS_TURN_P1(s) ==
  Deliver("PASS_TURN", PassTurnP1(World, s))

DropFromRoundP1(w, s) ==
  IF ~Admitted(w, s) THEN w
  ELSE IF w.activePlayerId = s THEN w    \* ReferenceError, caught
  ELSE w

DROP_FROM_ROUND_P1(s) ==
  Deliver("DROP_FROM_ROUND", DropFromRoundP1(World, s))

ContinueToNextSubPoolP1(w, s) ==
  IF ~Admitted(w, s) THEN w
  ELSE IF Me(w, s).isHost /\ AllReady(w.players) THEN continueToNextSubPoolLogicP1(w)
  ELSE w

CONTINUE_TO_NEXT_SUBPOOL_P1(s) ==
  Deliver("CONTINUE_TO_NEXT_SUBPOOL", ContinueToNextSubPoolP1(World, s))

OnCloseP1(w, s) == OnClose(w, s)

CloseP1(s) ==
  Handle(OnCloseP1(World, s))

\* the callback of room.turnTimer: line 326 reads activePlayerId when it
\* fires, line 449 passes the id captured when the timer was set
TurnTimerFiresP1 ==
  /\ turnTimer.kind # "none"
  /\ Handle(advanceTurnP1([World EXCEPT !.turnTimer = [kind |-> "none", who |-> NoId]],
                          IF turnTimer.kind = "live" THEN activePlayerId ELSE turnTimer.who,
                          "TIMEOUT"))

\* the callback of an untracked setTimeout(() => nextPlayerLogic(roomCode))
\* (lines 198 and 389)
RoundTimerFiresP1 ==
  /\ roundTimers > 0
  /\ Handle(nextPlayerLogicP1([World EXCEPT !.roundTimers = @ - 1]))

\* the closure of lines 339-347; the room object it captured is out of the
\* registry once the room is deleted, and nextPlayerLogic then returns
PreRoundClosure(w) ==
  IF ~w.exists THEN [w EXCEPT !.preTimers = @ - 1]
  ELSE nextPlayerLogicP1([w EXCEPT !.preTimers = @ - 1,
                                   !.currentSubPoolOrderIndex = @ + 1,
                                   !.currentPlayerInSubPoolIndex = 0 - 1,
                                   !.nextSubPoolName = ""])

PreTimerFiresP1 ==
  /\ preTimers > 0
  /\ Handle(PreRoundClosure(World))

NextP1 ==
  \/ \E s \in Sessions, known \in BOOLEAN : JOIN_ROOM_P1(s, known)
  \/ \E s \in Sessions : DRAW_PLAYERS_P1(s)
  \/ \E s \in Sessions : START_GAME_P1(s)
  \/ \E s \in Sessions : TOGGLE_READY_P1(s)
  \/ \E s \in Sessions : TOGGLE_READY_FOR_AUCTION_P1(s)
  \/ \E s \in Sessions : PLACE_BID_P1(s)
  \/ \E s \in Sessions : PASS_TURN_P1(s)
  \/ \E s \in Sessions : DROP_FROM_ROUND_P1(s)
  \/ \E s \in Sessions : CONTINUE_TO_NEXT_SUBPOOL_P1(s)
  \/ \E s \in Sessions : CloseP1(s)
  \/ TurnTimerFiresP1
  \/ RoundTimerFiresP1
  \/ PreTimerFiresP1

SpecP1 == Init /\ [][NextP1]_vars

----------------------------------------------------------------------------
(* Vocabulary of the claims *)

\* the gameState of a world: everything the clients are shown
GameOf(w) ==
  << w.gameStatus, w.players, w.auctionPool, w.subPools, w.subPoolOrder,
     w.currentPlayerForAuction, w.auctionHistory, w.currentBid, w.highestBidderId,
     w.activePlayerId, w.masterBiddingOrder, w.biddingOrder, w.startingPlayerIndex,
     w.playersInRound, w.lastActionMessage, w.currentSubPoolName, w.nextSubPoolName,
     w.currentSubPoolOrderIndex, w.currentPlayerInSubPoolIndex, w.unsoldPool,
     w.isSecondRound, w.nextPlayerForAuction >>

Budgets == [i \in DOMAIN players |-> players[i].budget]
SoldBids ==
  [i \in DOMAIN auctionHistory |->
     IF auctionHistory[i].winnerId = UNSOLD THEN 0 ELSE auctionHistory[i].winningBid]

Count(seq, x) == Cardinality({ i \in DOMAIN seq : seq[i] = x })

\* positions of the sub-pools not yet put up for auction
PendingCount(item) ==
  Cardinality({ kj \in (DOMAIN subPoolOrder) \X (1..Len(auctionPool)) :
     /\ subPoolOrder[kj[1]] \in DOMAIN subPools
     /\ kj[2] \in DOMAIN subPools[subPoolOrder[kj[1]]]
     /\ subPools[subPoolOrder[kj[1]]][kj[2]] = item
     /\ \/ kj[1] - 1 > currentSubPoolOrderIndex
        \/ kj[1] - 1 = currentSubPoolOrderIndex /\ kj[2] - 1 > currentPlayerInSubPoolIndex })
InPlayCount(item) ==
  IF gameStatus = "AUCTION" /\ currentPlayerForAuction = item THEN 1 ELSE 0
SquadCount(item) == SumSeq([i \in DOMAIN players |-> Count(players[i].squad, item)])
UnsoldCount(item) == Count(unsoldPool, item)

\* the items of the sub-pools in the order nextPlayerLogic walks them
RECURSIVE Traversal(_, _)
Traversal(pools, order) ==
  IF order = <<>> THEN <<>>
  ELSE (IF Head(order) \in DOMAIN pools THEN pools[Head(order)] ELSE <<>>)
         \o Traversal(pools, Tail(order))

\* the items put up for auction so far: one per history entry, and the one in play
PutUp ==
  [i \in DOMAIN auctionHistory |-> auctionHistory[i].cricketer]
    \o (IF gameStatus = "AUCTION" THEN <<currentPlayerForAuction>> ELSE <<>>)

IsPrefix(p, q) == Len(p) <= Len(q) /\ SubSeq(q, 1, Len(p)) = p

\* the budget and squad held under each session id
Holdings(ps) == { <<ps[i].id, ps[i].budget, ps[i].squad>> : i \in DOMAIN ps }

\* session s is the active player of a running round: its PASS_TURN,
\* DROP_FROM_ROUND or (with the budget) PLACE_BID is accepted
HasTurn(s) ==
  exists /\ gameStatus = "AUCTION" /\ Admitted(World, s) /\ s = activePlayerId

\* the first id after actor in order, going round once, that is in inRound
\* (NoId when there is none, or when actor is not in order)
NextInOrder(order, inRound, actor) ==
  LET k == IndexOf(order, actor)
      rot == SubSeq(order, k + 1, Len(order)) \o SubSeq(order, 1, k)
      left == SelectSeq(rot, LAMBDA id : Includes(inRound, id))
  IN IF k = 0 \/ left = <<>> THEN NoId ELSE Head(left)

\* the world after the pending turn timer of world w fired (lines 380, 470, 505)
TurnTimeout(w) ==
  StateOf(advanceTurn([w EXCEPT !.turnTimer = [kind |-> "none", who |-> NoId]],
                      w.activePlayerId, "TIMEOUT"))

\* the world after n turn timers fired in a row with no message in between
\* (fewer when no turn timer is left pending)
RECURSIVE AfterTimeouts(_, _)
AfterTimeouts(w, n) ==
  IF n = 0 \/ w.turnTimer.kind # "live" THEN w
  ELSE AfterTimeouts(TurnTimeout(w), n - 1)

----------------------------------------------------------------------------
(* Claims checked against src/index.js (specification Spec) *)

\* C1: in every reachable state every player's budget is at least 0.
C1_BudgetNeverNegative == \A i \in DOMAIN players : players[i].budget >= 0

\* a player has won an item with a bid of the whole starting budget
C1_Witness ==
  \E i \in DOMAIN players : players[i].budget = 0 /\ players[i].squad # <<>>

\* C2: in every room the winning bids of the sold history entries add up to
\* starting budget * number of players - the players' current budgets.
C2_MoneyConserved ==
  exists => SumSeq(SoldBids) = STARTING_BUDGET * Len(players) - SumSeq(Budgets)

\* C3: once pools are drawn every drawn item is in exactly one of: a pending
\* sub-pool position, the item in play, a squad, the unsold pool.
C3_ItemInExactlyOnePlace ==
  (exists /\ auctionPool # <<>>) =>
     \A item \in Range(auctionPool) :
        PendingCount(item) + InPlayCount(item) + SquadCount(item) + UnsoldCount(item) = 1

\* C4: a room that exists has exactly one host; when the host's connection
\* closes the first remaining player becomes the only host, and when the last
\* player's connection closes the room is destroyed.
C4_ExactlyOneHost ==
  /\ exists => Cardinality({ i \in DOMAIN players : players[i].isHost }) = 1
  /\ exists <=> players # <<>>
  /\ \A s \in Sessions :
       (Admitted(World, s) /\ Me(World, s).isHost) =>
          LET after == OnClose(World, s)
              rest == SelectSeq(players, LAMBDA p : p.id # s)
          IN IF rest = <<>> THEN ~after.exists
             ELSE /\ after.exists
                  /\ PlayerIds(after.players) = PlayerIds(rest)
                  /\ \A i \in DOMAIN after.players : after.players[i].isHost <=> i = 1

\* the first host has left and the player who joined later is now the host
C4_Witness ==
  exists /\ Len(players) >= 1 /\ players[1].id # 1 /\ players[1].isHost

\* C6: once the status is GAME_OVER no client message and no timer callback
\* changes the room's game state.
C6_GameOverTerminal ==
  (exists /\ gameStatus = "GAME_OVER") =>
     /\ \A s \in Sessions :
          /\ \A known \in BOOLEAN : GameOf(JoinRoom(World, s, known)) = GameOf(World)
          /\ \A sel \in DrawChoices(cricketersMasterList) :
               GameOf(DrawPlayers(World, s, cricketersMasterList, sel)) = GameOf(World)
          /\ \A shuffled \in Shuffles(PlayerIds(players)) :
               GameOf(StartGame(World, s, shuffled)) = GameOf(World)
          /\ GameOf(ToggleReady(World, s)) = GameOf(World)
          /\ GameOf(ToggleReadyForAuction(World, s)) = GameOf(World)
          /\ GameOf(PlaceBid(World, s)) = GameOf(World)
          /\ GameOf(PassTurn(World, s)) = GameOf(World)
          /\ GameOf(DropFromRound(World, s)) = GameOf(World)
          /\ GameOf(ContinueToNextSubPool(World, s)) = GameOf(World)
     /\ GameOf(advanceTurn(World, activePlayerId, "TIMEOUT")) = GameOf(World)
     /\ GameOf(nextPlayerLogic(World)) = GameOf(World)

\* C7: while the status is ROUND_OVER none of PlaceBid, PassTurn,
\* DropFromRound, DrawPools, StartAuction, ContinueToNextPool changes the
\* room's game state.
C7_RoundOverAcceptsNoAction ==
  (exists /\ gameStatus = "ROUND_OVER") =>
     \A s \in Sessions :
        /\ GameOf(PlaceBid(World, s)) = GameOf(World)
        /\ GameOf(PassTurn(World, s)) = GameOf(World)
        /\ GameOf(DropFromRound(World, s)) = GameOf(World)
        /\ \A sel \in DrawChoices(cricketersMasterList) :
             GameOf(DrawPlayers(World, s, cricketersMasterList, sel)) = GameOf(World)
        /\ \A shuffled \in Shuffles(PlayerIds(players)) :
             GameOf(StartGame(World, s, shuffled)) = GameOf(World)
        /\ GameOf(ContinueToNextSubPool(World, s)) = GameOf(World)

\* C9: PlaceBid, PassTurn or DropFromRound from a player who is not the
\* active player leaves the whole room state unchanged and broadcasts nothing.
C9_NonActiveIgnored ==
  \A s \in Sessions :
     (Admitted(World, s) /\ s # activePlayerId) =>
        /\ PlaceBid(World, s) = World
        /\ PassTurn(World, s) = World
        /\ DropFromRound(World, s) = World

\* a round is on and a player still in it is waiting for the turn
C9_Witness ==
  /\ gameStatus = "AUCTION"
  /\ \E s \in Sessions :
       /\ Admitted(World, s) /\ s # activePlayerId
       /\ Includes(playersInRound, s)
       /\ Me(World, s).budget >= currentBid + getBidIncrement(currentBid)

\* C10: a PlaceBid by the active player whose budget is below
\* currentBid + increment(currentBid) changes nothing (bid, highest bidder,
\* active player, players in the round, pending turn timer).
C10_UnaffordableBidIgnored ==
  \A s \in Sessions :
     ( /\ Admitted(World, s) /\ s = activePlayerId
       /\ Me(World, s).budget < currentBid + getBidIncrement(currentBid) ) =>
        PlaceBid(World, s) = World

\* the active player of a running round cannot afford the next bid
C10_Witness ==
  /\ gameStatus = "AUCTION" /\ turnTimer.kind = "live"
  /\ Admitted(World, activePlayerId)
  /\ Includes(playersInRound, activePlayerId)
  /\ Me(World, activePlayerId).budget < currentBid + getBidIncrement(currentBid)

\* C12: when, after an accepted action, the next player of biddingOrder still
\* in playersInRound is the highest bidder (a full circle with no new bid),
\* the round ends and that bidder wins at currentBid: the budget drops by
\* that amount, the squad gains the item and the history gains the entry
\* (item, amount, bidder). In particular, with two players in the round, if
\* the first bids and the second passes, the first wins at base price plus
\* increment(base price).
C12_FullCircleSellsToBidder ==
  LET item == currentPlayerForAuction
      \* the bidder wins the item at the current bid of world w
      Wins(w, before, id) ==
        /\ w.gameStatus = "ROUND_OVER"
        /\ w.auctionHistory = Append(before.auctionHistory,
              [cricketer |-> item, winningBid |-> w.currentBid, winnerId |-> id])
        /\ \E i \in DOMAIN w.players :
              /\ w.players[i].id = id
              /\ \E j \in DOMAIN before.players :
                    /\ before.players[j].id = id
                    /\ w.players[i].budget = before.players[j].budget - w.currentBid
                    /\ w.players[i].squad = Append(before.players[j].squad, item)
      \* the first player of the order after actor, cyclically, that is inRound
      NextIn(order, inRound, actor) ==
        LET k == IndexOf(order, actor)
            rot == SubSeq(order, k + 1, Len(order)) \o SubSeq(order, 1, k)
            left == SelectSeq(rot, LAMBDA id : Includes(inRound, id))
        IN IF left = <<>> THEN NoId ELSE Head(left)
      Without(actor) == SelectSeq(playersInRound, LAMBDA id : id # actor)
      FullCircle(after, actor, bidder, inRound) ==
        (StateOf(after) # World /\ bidder # NoId
           /\ NextIn(biddingOrder, inRound, actor) = bidder)
          => Wins(after, World, bidder)
  IN (exists /\ gameStatus = "AUCTION") =>
       /\ \A s \in Sessions :
            /\ FullCircle(PlaceBid(World, s), s, s, playersInRound)
            /\ FullCircle(PassTurn(World, s), s, highestBidderId, playersInRound)
            /\ FullCircle(DropFromRound(World, s), s, highestBidderId, Without(s))
       /\ turnTimer.kind = "live" =>
            FullCircle(advanceTurn(World, activePlayerId, "TIMEOUT"), activePlayerId,
                       highestBidderId, Without(activePlayerId))
       /\ (Len(playersInRound) = 2 /\ Len(biddingOrder) = 2 /\ highestBidderId = NoId
             /\ currentBid = item.basePrice /\ activePlayerId = biddingOrder[1]
             /\ \A id \in Range(playersInRound) : Admitted(World, id)) =>
            LET first == biddingOrder[1]
                second == biddingOrder[2]
                bid == PlaceBid(World, first)
                pass == PassTurn(StateOf(bid), second)
            IN StateOf(bid) # World =>
                 /\ pass.currentBid = item.basePrice + getBidIncrement(item.basePrice)
                 /\ Wins(pass, World, first)

\* C13: round-robin fairness: over any N consecutive items auctioned with a
\* fixed player set, each player is the first bidder of the round (the
\* initial activePlayerId) ceil(N/playerCount) or floor(N/playerCount)
\* times. Stated for N = 2: with two or more players nobody is the first
\* bidder of two consecutive items (biddingOrder[1] is the first bidder of
\* the round that just ended, activePlayerId' the one of the round starting),
\* in a run whose messages were all sent in their phase.
C13_RoundRobinFairness ==
  [][(/\ outOfPhase' = 0
      /\ gameStatus \in {"ROUND_OVER", "SUBPOOL_BREAK"} /\ gameStatus' = "AUCTION"
      /\ auctionHistory # <<>> /\ auctionHistory' = auctionHistory
      /\ players' = players /\ masterBiddingOrder' = masterBiddingOrder
      /\ Range(masterBiddingOrder) = Range(PlayerIds(players))
      /\ Len(players) >= 2
      /\ biddingOrder # <<>> /\ activePlayerId' # NoId)
       => activePlayerId' # biddingOrder[1]]_vars

C15_AtMostOnePendingTimer ==
  (IF turnTimer.kind = "none" THEN 0 ELSE 1) + roundTimers + preTimers <= 1

\* C16: each item left unsold in the first round is put up for auction
\* exactly once more in the second round, and no item is ever put up for
\* auction more than twice in the room's lifetime. An item has been put up
\* once per history entry that names it, and once more while its round runs.
\* Stated for runs whose messages were all sent in their phase.
C16_UnsoldItemsReplayedOnce ==
  outOfPhase = 0 =>
  \A item \in Range(auctionPool) :
     LET rounds == SelectSeq(auctionHistory, LAMBDA h : h.cricketer = item)
         running == IF gameStatus = "AUCTION" /\ currentPlayerForAuction = item
                    THEN 1 ELSE 0
     IN /\ Len(rounds) + running <= 2
        /\ (gameStatus = "GAME_OVER" /\ rounds # <<>> /\ rounds[1].winnerId = UNSOLD)
             => Len(rounds) = 2

\* C18: when a room reaches GAME_OVER, the history holds exactly as many
\* entries as items were drawn (the sum of the quotas), each resolved as sold
\* or unsold, and no item appears in two history entries. Stated for runs
\* whose messages were all sent in their phase.
C18_HistoryAtGameOver ==
  (outOfPhase = 0 /\ exists /\ gameStatus = "GAME_OVER") =>
     /\ Len(auctionHistory) = Len(auctionPool)
     /\ Len(auctionPool) = SumSeq([i \in DOMAIN roleOrder |-> quotas[roleOrder[i]]])
     /\ \A i \in DOMAIN auctionHistory :
          \/ auctionHistory[i].winnerId = UNSOLD /\ auctionHistory[i].winningBid = 0
          \/ auctionHistory[i].winnerId \in Sessions /\ auctionHistory[i].winningBid > 0
     /\ \A i, j \in DOMAIN auctionHistory :
          i # j => auctionHistory[i].cricketer # auctionHistory[j].cricketer

\* C21: a room is destroyed exactly when its last player disconnects, its
\* outstanding timer is cancelled at that moment, and no timer callback
\* scheduled for that room changes any state afterwards: the room is in the
\* registry exactly while it has players, a room out of the registry has no
\* pending timer, and the timer callbacks leave its state as it is.
C21_RoomDestroyedWithItsTimers ==
  /\ exists <=> players # <<>>
  /\ ~exists =>
       /\ turnTimer.kind = "none" /\ roundTimers = 0
       /\ GameOf(nextPlayerLogic(World)) = GameOf(World)
       /\ GameOf(advanceTurn(World, activePlayerId, "TIMEOUT")) = GameOf(World)

\* C22: for a given session id, the budget recorded in a room never
\* increases and the squad never loses an item for as long as the room
\* exists, including across that session's disconnect and later re-join:
\* no step raises the budget or shortens the squad of a player of the room,
\* and the record of a player who disconnects and joins again (the room
\* still being there) has at most the budget and at least the squad it had.
\* Stated for rooms whose messages so far were all sent in their phase.
C22_BudgetAndSquadPersist ==
  [][\A s \in Sessions :
       (outOfPhase = 0 /\ Admitted(World, s)) =>
         LET before == Me(World, s)
             Kept(ps) ==
               \A i \in DOMAIN ps :
                  ps[i].id = s =>
                    /\ ps[i].budget <= before.budget
                    /\ Len(ps[i].squad) >= Len(before.squad)
                    /\ SubSeq(ps[i].squad, 1, Len(before.squad)) = before.squad
             rejoined == JoinRoom(StateOf(OnClose(World, s)), s, TRUE)
         IN /\ exists' => Kept(players')
            /\ rejoined.exists => Kept(rejoined.players)]_vars

\* C23: in every reachable state, every id in playersInRound also occurs in
\* biddingOrder, including when a player joins the room after StartAuction.
\* Stated for rooms whose auction has been started (StartAuction has drawn
\* the master bidding order).
C23_BiddingOrderCoversRound ==
  (exists /\ masterBiddingOrder # <<>>) =>
     Range(playersInRound) \subseteq Range(biddingOrder)

\* C25: at every round end exactly one of two things happens: if
\* highestBidderId is set and is in playersInRound, that player's budget is
\* reduced by exactly currentBid, the item is appended to that player's
\* squad and the history gains (item, currentBid, that player); otherwise
\* the history gains (item, 0, UNSOLD) and the item is added to the unsold
\* pool. Then status becomes ROUND_OVER. A round ends on the step that takes
\* the status from AUCTION to ROUND_OVER; stated for runs whose messages
\* were all sent in their phase.
C25_RoundEndSellsOrShelves ==
  [][(outOfPhase' = 0 /\ exists' /\ gameStatus = "AUCTION" /\ gameStatus' = "ROUND_OVER") =>
       LET item == currentPlayerForAuction
           bidder == highestBidderId'
           bid == currentBid'
       IN IF bidder # NoId /\ Includes(playersInRound', bidder)
          THEN /\ auctionHistory' = Append(auctionHistory,
                     [cricketer |-> item, winningBid |-> bid, winnerId |-> bidder])
               /\ \E i \in DOMAIN players :
                     /\ players[i].id = bidder
                     /\ players' = [players EXCEPT ![i].budget = @ - bid,
                                                   ![i].squad = Append(@, item)]
               /\ unsoldPool' = unsoldPool
          ELSE /\ auctionHistory' = Append(auctionHistory,
                     [cricketer |-> item, winningBid |-> 0, winnerId |-> UNSOLD])
               /\ unsoldPool' = Append(unsoldPool, item)
               /\ players' = players]_vars

\* C27: ContinueToNextPool has an effect only when sent by the host while
\* every non-host player has isReady = true; sent by a non-host, or while
\* some non-host player is not ready, it leaves the room state unchanged. On
\* every entry to SUBPOOL_BREAK all non-host players have isReady = false.
C27_ContinueNeedsHostAndReady ==
  [][/\ \A s \in Sessions :
          ~(Admitted(World, s) /\ Me(World, s).isHost
              /\ \A i \in DOMAIN players : players[i].isHost \/ players[i].isReady)
            => ContinueToNextSubPool(World, s) = World
     /\ (gameStatus # "SUBPOOL_BREAK" /\ gameStatus' = "SUBPOOL_BREAK") =>
          \A i \in DOMAIN players' : ~players'[i].isHost => ~players'[i].isReady]_vars

\* the room has just entered a pool break with a player who is not ready:
\* the host's CONTINUE is refused
C27_Witness ==
  /\ gameStatus = "SUBPOOL_BREAK" /\ Len(players) = 2 /\ auctionHistory # <<>>
  /\ \E i \in DOMAIN players : ~players[i].isHost /\ ~players[i].isReady
  /\ \E s \in Sessions : Admitted(World, s) /\ Me(World, s).isHost
  /\ continueToNextSubPoolLogic(World).gameStatus = "AUCTION"

\* C28: within a round phase, the items of a sub-pool are put up for auction
\* one at a time in their stored order with none skipped, and no item of a
\* later sub-pool in the traversal order is put up before every item of the
\* current sub-pool has been resolved: the items put up so far in the phase
\* are the first items of the sub-pools laid end to end in traversal order
\* (in the second round, after the items of the first, all of them resolved).
C28_SubPoolsAuctionedInOrder ==
  (exists /\ masterBiddingOrder # <<>>) =>
     IF ~isSecondRound
     THEN IsPrefix(PutUp, Traversal(subPools, subPoolOrder))
     ELSE /\ Len(PutUp) >= Len(auctionPool)
          /\ IsPrefix(SubSeq(PutUp, Len(auctionPool) + 1, Len(PutUp)),
                      Traversal(subPools, subPoolOrder))

\* C31: while a room is in AUCTION a turn timer is always pending, and if no
\* player action arrives the round ends (status becomes ROUND_OVER) after
\* finitely many timeouts: at most one for each player in the round and one
\* more (for a turn that was held by nobody in the round).
C31_TimeoutsEndTheRound ==
  (exists /\ gameStatus = "AUCTION") =>
     /\ turnTimer.kind = "live"
     /\ \E n \in 1..(Len(playersInRound) + 1) :
          AfterTimeouts(World, n).gameStatus = "ROUND_OVER"

\* a round with two players in it and no bid: the first timeout passes the
\* turn on, the second ends the round
C31_Witness ==
  /\ exists /\ gameStatus = "AUCTION" /\ Len(playersInRound) = 2
  /\ highestBidderId = NoId /\ Includes(playersInRound, activePlayerId)
  /\ AfterTimeouts(World, 1).gameStatus = "AUCTION"
  /\ AfterTimeouts(World, 1).activePlayerId # activePlayerId
  /\ AfterTimeouts(World, 2).gameStatus = "ROUND_OVER"

\* C32 as stated: an accepted PassTurn removes nobody from playersInRound
\* and leaves currentBid, highestBidderId, every budget and every squad
\* unchanged; it only moves the active pointer (or ends the round) and resets
\* the timer.
C32_PassChangesOnlyTheTurn ==
  \A s \in Sessions :
     HasTurn(s) =>
        LET after == PassTurn(World, s)
        IN /\ after.playersInRound = playersInRound
           /\ after.currentBid = currentBid
           /\ after.highestBidderId = highestBidderId
           /\ Holdings(after.players) = Holdings(players)
           /\ after.gameStatus \in {"AUCTION", "ROUND_OVER"}
           /\ after.gameStatus = "AUCTION" => after.turnTimer.kind = "live"

\* C32 as amended: an accepted PassTurn removes nobody from playersInRound
\* and leaves currentBid and highestBidderId unchanged; unless it ends the
\* round it leaves every budget and every squad unchanged and only moves the
\* active pointer and resets the timer; when it ends the round, budgets and
\* squads change only by the settlement of the round (the highest bidder, if
\* still a player in the round, pays currentBid and gains the item).
C32_PassChangesOnlyTheTurnOrSettles ==
  \A s \in Sessions :
     HasTurn(s) =>
        LET after == PassTurn(World, s)
            item == currentPlayerForAuction
            Settled(ps) ==
              { IF h[1] = highestBidderId
                THEN <<h[1], h[2] - currentBid, Append(h[3], item)>> ELSE h :
                  h \in Holdings(ps) }
        IN /\ after.playersInRound = playersInRound
           /\ after.currentBid = currentBid
           /\ after.highestBidderId = highestBidderId
           /\ after.gameStatus \in {"AUCTION", "ROUND_OVER"}
           /\ after.gameStatus = "AUCTION" =>
                /\ Holdings(after.players) = Holdings(players)
                /\ after.turnTimer.kind = "live"
                /\ GameOf([after EXCEPT !.activePlayerId = activePlayerId,
                                        !.lastActionMessage = lastActionMessage])
                     = GameOf(World)
           /\ after.gameStatus = "ROUND_OVER" =>
                /\ after.turnTimer.kind = "none"
                /\ Holdings(after.players) =
                     IF highestBidderId # NoId /\ Includes(playersInRound, highestBidderId)
                     THEN Settled(players) ELSE Holdings(players)

\* the active player may pass while another player of the round holds the
\* highest bid: the pass ends the round and the item is sold
C32_Witness ==
  /\ HasTurn(activePlayerId) /\ Len(playersInRound) = 2
  /\ highestBidderId # NoId /\ highestBidderId # activePlayerId
  /\ Admitted(World, highestBidderId) /\ Includes(playersInRound, highestBidderId)
  /\ PassTurn(World, activePlayerId).gameStatus = "ROUND_OVER"
  /\ Holdings(PassTurn(World, activePlayerId).players) # Holdings(players)

\* C33: an accepted DropFromRound or TIMEOUT removes exactly the acting
\* player from playersInRound and, unless the round ends, makes active the
\* next id after the actor in biddingOrder that is still in playersInRound,
\* found within one full cycle of biddingOrder.
C33_DropOrTimeoutPassesTheTurn ==
  LET Without(actor) == SelectSeq(playersInRound, LAMBDA id : id # actor)
      Passed(after, actor) ==
        /\ after.playersInRound = Without(actor)
        /\ after.gameStatus \in {"AUCTION", "ROUND_OVER"}
        /\ after.gameStatus = "AUCTION" =>
             /\ after.activePlayerId # NoId
             /\ after.activePlayerId = NextInOrder(biddingOrder, Without(actor), actor)
  IN /\ \A s \in Sessions : HasTurn(s) => Passed(DropFromRound(World, s), s)
     /\ (exists /\ gameStatus = "AUCTION" /\ turnTimer.kind = "live"
           /\ Includes(playersInRound, activePlayerId))
          => Passed(TurnTimeout(World), activePlayerId)

\* C34: in src/index.js, when a drop or timeout leaves exactly one player in
\* the round and no bid has been placed, the round does not end: that player
\* becomes active and gets one final turn, after which the round is over
\* whatever that player does (bid: sold to them; pass, drop or timeout:
\* unsold).
C34_SoleSurvivorGetsOneFinalTurn ==
  LET item == currentPlayerForAuction
      Sold(w, id, bid) ==
        /\ w.gameStatus = "ROUND_OVER"
        /\ w.auctionHistory = Append(auctionHistory,
              [cricketer |-> item, winningBid |-> bid, winnerId |-> id])
        /\ \E i \in DOMAIN w.players :
              w.players[i].id = id /\ w.players[i].squad # <<>>
                /\ w.players[i].squad[Len(w.players[i].squad)] = item
      Unsold(w) ==
        /\ w.gameStatus = "ROUND_OVER"
        /\ w.auctionHistory = Append(auctionHistory,
              [cricketer |-> item, winningBid |-> 0, winnerId |-> UNSOLD])
        /\ w.unsoldPool = Append(unsoldPool, item)
      FinalTurn(after) ==
        (Len(after.playersInRound) = 1) =>
           LET last == after.playersInRound[1]
               newBid == currentBid + getBidIncrement(currentBid)
           IN /\ after.gameStatus = "AUCTION"
              /\ after.activePlayerId = last
              /\ after.turnTimer.kind = "live"
              /\ Unsold(TurnTimeout(after))
              /\ Admitted(after, last) =>
                   /\ Me(after, last).budget >= newBid =>
                        Sold(PlaceBid(after, last), last, newBid)
                   /\ Unsold(PassTurn(after, last))
                   /\ Unsold(DropFromRound(after, last))
  IN (exists /\ gameStatus = "AUCTION" /\ highestBidderId = NoId
        /\ Includes(playersInRound, activePlayerId)) =>
       /\ Admitted(World, activePlayerId) =>
            FinalTurn(StateOf(DropFromRound(World, activePlayerId)))
       /\ turnTimer.kind = "live" => FinalTurn(TurnTimeout(World))

\* C36: no item is ever in two players' squads or twice in one squad, after
\* any sequence of client messages (including repeated StartAuction and
\* ContinueToNextPool by the host) and timer firings.
C36_NoItemInTwoSquads ==
  exists => \A item \in Range(cricketersMasterList) : SquadCount(item) <= 1

\* C37: while status is AUCTION and playersInRound is not empty,
\* activePlayerId is a member of playersInRound. Stated for rooms whose
\* auction has been started (StartAuction has drawn the master bidding order).
C37_ActivePlayerIsInRound ==
  (exists /\ gameStatus = "AUCTION" /\ playersInRound # <<>>
     /\ masterBiddingOrder # <<>>) =>
     Includes(playersInRound, activePlayerId)

\* C38: while status is AUCTION, the highest bidder is never the active
\* player: a player who holds the highest bid is never given a turn to bid
\* against themselves.
C38_BidderNeverActive ==
  (exists /\ gameStatus = "AUCTION" /\ highestBidderId # NoId) =>
     activePlayerId # highestBidderId

\* two players are in the round, one holds the highest bid and the other has
\* the turn: the turn would come back to the bidder if the other passed
C38_Witness ==
  /\ HasTurn(activePlayerId) /\ highestBidderId # NoId
  /\ Len(playersInRound) = 2 /\ Includes(playersInRound, highestBidderId)
  /\ NextInOrder(biddingOrder, playersInRound, activePlayerId) = highestBidderId
  /\ PassTurn(World, activePlayerId).gameStatus = "ROUND_OVER"

\* C39: no item is sold without a bid accepted in that round: every history
\* entry with a winner has winningBid at least the item's base price plus
\* increment(base price), and an item for which no bid was accepted is
\* recorded as UNSOLD even when only one player could afford it. A round
\* ends on the step that takes the status from AUCTION to ROUND_OVER; no bid
\* was accepted in it when highestBidderId is then still unset.
C39_NoSaleWithoutBid ==
  /\ [](\A i \in DOMAIN auctionHistory :
          LET h == auctionHistory[i]
          IN h.winnerId # UNSOLD =>
               h.winningBid >= h.cricketer.basePrice
                                 + getBidIncrement(h.cricketer.basePrice))
  /\ [][(exists' /\ gameStatus = "AUCTION" /\ gameStatus' = "ROUND_OVER"
           /\ highestBidderId' = NoId) =>
          /\ auctionHistory' = Append(auctionHistory,
                [cricketer |-> currentPlayerForAuction, winningBid |-> 0,
                 winnerId |-> UNSOLD])
          /\ unsoldPool' = Append(unsoldPool, currentPlayerForAuction)
          /\ Holdings(players') = Holdings(players)]_vars

\* one item has been sold and the round of the next, which only one player
\* could afford, has just ended without a bid
C39_Witness ==
  /\ gameStatus = "ROUND_OVER" /\ Len(auctionHistory) = 2
  /\ auctionHistory[1].winnerId # UNSOLD /\ auctionHistory[2].winnerId = UNSOLD
  /\ Len(players) = 2 /\ Len(biddingOrder) = 1 /\ highestBidderId = NoId
  /\ Cardinality({ i \in DOMAIN players :
                     players[i].budget >= currentPlayerForAuction.basePrice }) = 1

----------------------------------------------------------------------------
(* Claims checked against src/unnamed/part_001 (specification SpecP1) *)

\* C5: the status of a room changes only along the edges LOBBY ->
\* AUCTION_POOL_VIEW -> PRE_ROUND_TIMER -> AUCTION -> ROUND_OVER ->
\* {AUCTION, SUBPOOL_BREAK, GAME_OVER} and SUBPOOL_BREAK -> PRE_ROUND_TIMER;
\* no message or timer in another status changes it.
C5_StatusChangesAlongEdges ==
  [][gameStatus' # gameStatus =>
       <<gameStatus, gameStatus'>> \in
          { <<"LOBBY", "AUCTION_POOL_VIEW">>,
            <<"AUCTION_POOL_VIEW", "PRE_ROUND_TIMER">>,
            <<"PRE_ROUND_TIMER", "AUCTION">>,
            <<"AUCTION", "ROUND_OVER">>,
            <<"ROUND_OVER", "AUCTION">>,
            <<"ROUND_OVER", "SUBPOOL_BREAK">>,
            <<"ROUND_OVER", "GAME_OVER">>,
            <<"SUBPOOL_BREAK", "PRE_ROUND_TIMER">> }]_vars

\* C8: while the status is PRE_ROUND_TIMER no player action changes the
\* room's game state, and the countdown's callback moves the room to AUCTION
\* for the first item of the pool.
C8_PreRoundTimerAcceptsNoAction ==
  (exists /\ gameStatus = "PRE_ROUND_TIMER") =>
     /\ \A s \in Sessions :
          /\ \A sel \in DrawChoices(cricketersMasterList) :
               GameOf(DrawPlayersP1(World, s, cricketersMasterList, sel)) = GameOf(World)
          /\ \A shuffled \in Shuffles(PlayerIds(players)) :
               GameOf(StartGameP1(World, s, shuffled)) = GameOf(World)
          /\ GameOf(ToggleReadyP1(World, s)) = GameOf(World)
          /\ GameOf(ToggleReadyForAuctionP1(World, s)) = GameOf(World)
          /\ GameOf(PlaceBidP1(World, s)) = GameOf(World)
          /\ GameOf(PassTurnP1(World, s)) = GameOf(World)
          /\ GameOf(DropFromRoundP1(World, s)) = GameOf(World)
          /\ GameOf(ContinueToNextSubPoolP1(World, s)) = GameOf(World)
     /\ roundTimers > 0 =>
          LET after == nextPlayerLogicP1(World)
          IN after.gameStatus = "AUCTION" /\ after.currentPlayerInSubPoolIndex = 0
     /\ preTimers > 0 =>
          LET after == PreRoundClosure(World)
          IN after.gameStatus = "AUCTION" /\ after.currentPlayerInSubPoolIndex = 0

\* C26: a post-round or pre-round timer callback that fires after the room
\* has already left the status it was scheduled in (or moved to a different
\* item or pool) does nothing: it does not put up another item, advance the
\* sub-pool index or change the status. The post-round timer is scheduled in
\* ROUND_OVER and the pre-round timers in PRE_ROUND_TIMER, so in any other
\* status a pending one has outlived the status it was scheduled in.
C26_StaleRoundTimerDoesNothing ==
  LET Still(after) ==
        /\ after.gameStatus = gameStatus
        /\ after.currentPlayerForAuction = currentPlayerForAuction
        /\ after.currentSubPoolOrderIndex = currentSubPoolOrderIndex
        /\ after.currentPlayerInSubPoolIndex = currentPlayerInSubPoolIndex
  IN (exists /\ gameStatus \notin {"ROUND_OVER", "PRE_ROUND_TIMER"}) =>
       /\ roundTimers > 0 => Still(nextPlayerLogicP1(World))
       /\ preTimers > 0 => Still(PreRoundClosure(World))

\* C35: in the revision with PRE_ROUND_TIMER (src/unnamed/part_001), an
\* accepted PlaceBid, PassTurn or DropFromRound from the active player ends
\* that player's turn: immediately afterwards either the round is over or a
\* different player is the active player.
C35_AcceptedActionEndsTheTurn ==
  \A s \in Sessions :
     HasTurn(s) =>
        LET TurnEnded(after) ==
              after.gameStatus = "ROUND_OVER" \/ after.activePlayerId # s
        IN /\ Me(World, s).budget >= currentBid + getBidIncrement(currentBid) =>
                TurnEnded(PlaceBidP1(World, s))
           /\ TurnEnded(PassTurnP1(World, s))
           /\ TurnEnded(DropFromRoundP1(World, s))

----------------------------------------------------------------------------
(* Claims checked against the auction from START_GAME on (specification SpecLive) *)

\* C17: after START_GAME, if timers fire, no player disconnects, every round
\* receives only finitely many player actions, and at every SUBPOOL_BREAK the
\* non-host players ready up and the host continues, the room eventually
\* reaches GAME_OVER.
C17_EventuallyGameOver == <>(gameStatus = "GAME_OVER")

----------------------------------------------------------------------------
(* Claims checked against the lobby with a short catalog (specification SpecShort) *)

\* C19 as stated: when the catalog has fewer items of some role than that
\* role's quota, DrawPools is rejected: the room stays in LOBBY, the room's
\* game state is left untouched (no pools, no readiness change, no other
\* field changed), and the error notice names the shortfall as
\* 'need <quota> <role>, found <count>'.
C19_ShortDrawLeavesStateUntouched ==
  \A s \in Sessions : \A sel \in DrawChoices(cricketersMasterList) :
     (gameStatus = "LOBBY" /\ Admitted(World, s) /\ Me(World, s).isHost) =>
        LET after == DrawPlayers(World, s, cricketersMasterList, sel)
        IN /\ after.gameStatus = "LOBBY"
           /\ GameOf(after) = GameOf(World)

\* C19 as amended: the rejected DrawPools leaves the room in LOBBY and
\* changes no field of the game state but lastActionMessage, which records
\* the error; the error notice, sent to the whole room before the state
\* update, names the shortfall as 'need <quota> <role>, found <count>'.
C19_ShortDrawChangesOnlyMessage ==
  \A s \in Sessions : \A sel \in DrawChoices(cricketersMasterList) :
     (gameStatus = "LOBBY" /\ Admitted(World, s) /\ Me(World, s).isHost) =>
        LET after == DrawPlayers(World, s, cricketersMasterList, sel)
            count(role) == Cardinality({ i \in DOMAIN cricketersMasterList :
                                          cricketersMasterList[i].role = role })
            shortfall ==
              IF count("Batsman") = 0 /\ count("Bowler") = 0
              THEN "need 1 batsmen, found 0, need 1 bowlers, found 0"
              ELSE IF count("Batsman") = 0 THEN "need 1 batsmen, found 0"
              ELSE "need 1 bowlers, found 0"
            notice == "Cannot draw players, insufficient numbers in database: "
                        \o shortfall \o "."
        IN /\ after.gameStatus = "LOBBY"
           /\ after.auctionPool = <<>> /\ after.subPools = <<>>
           /\ after.players = players
           /\ GameOf([after EXCEPT !.lastActionMessage = lastActionMessage])
                = GameOf(World)
           /\ after.lastActionMessage = "Error: " \o notice
           /\ after.outbox = << [to |-> "room", msg |-> "ERROR: " \o notice],
                                [to |-> "room", msg |-> "GAME_STATE_UPDATE"] >>

\* a draw has just been rejected in a lobby of two players, one of them ready
C19_Witness ==
  /\ gameStatus = "LOBBY" /\ Len(players) = 2 /\ auctionPool = <<>>
  /\ \E i \in DOMAIN players : ~players[i].isHost /\ players[i].isReady
  /\ lastActionMessage = "Error: " \o errorMessage(cricketersMasterList)

----------------------------------------------------------------------------
(* Claims checked against the lobby filling up (specification SpecJoin) *)

\* C20: a JoinRoom naming an unknown room code, or a room that already has
\* 4 players, changes no room's state and sends a fatal error notice to the
\* requesting connection only; consequently no room ever has more than 4
\* players.
C20_JoinRejected ==
  /\ Len(players) <= 4
  /\ \A s \in JoinSessions :
       /\ LET after == JoinRoom(World, s, FALSE)
          IN /\ StateOf(after) = World
             /\ after.outbox = << [to |-> "sender", msg |-> "ERROR fatal: Room not found."] >>
       /\ (exists /\ Len(players) = 4) =>
            LET after == JoinRoom(World, s, TRUE)
            IN /\ StateOf(after) = World
               /\ after.outbox = << [to |-> "sender", msg |-> "ERROR fatal: Room is full."] >>

\* the room is full and a fifth session is there to ask
C20_Witness ==
  /\ exists /\ Len(players) = 4
  /\ \E s \in JoinSessions : ~HasPlayer(players, s)

----------------------------------------------------------------------------
(* Claims checked against the bidding of one item (specification SpecBid) *)

\* C11: the bid increment is 5 for a current bid below 100, 10 from 100 to
\* 199, 20 from 200 to 499 and 25 from 500 on, and every accepted bid sets
\* currentBid to the previous currentBid plus that increment.
C11_BidIncrementTable ==
  LET increment == IF currentBid \in 0..99 THEN 5
                   ELSE IF currentBid \in 100..199 THEN 10
                   ELSE IF currentBid \in 200..499 THEN 20
                   ELSE 25
  IN /\ getBidIncrement(currentBid) = increment
     /\ getBidIncrement(50) = 5 /\ getBidIncrement(150) = 10
     /\ getBidIncrement(450) = 20 /\ getBidIncrement(999) = 25
     /\ \A s \in Sessions :
          LET after == PlaceBid(World, s)
          IN StateOf(after) # World =>
               /\ after.currentBid = currentBid + increment
               /\ after.highestBidderId = s

\* bids have been accepted through the bands up to the last threshold
C11_Witness ==
  /\ gameStatus = "AUCTION" /\ currentPlayerForAuction.basePrice = 50
  /\ currentBid = 500 /\ highestBidderId # NoId
  /\ StateOf(PlaceBid(World, activePlayerId)) # World

----------------------------------------------------------------------------
(* Claims checked against the bidding among three players (specification SpecTurn) *)

\* C24: an accepted PlaceBid (active player, budget at least currentBid +
\* increment) sets currentBid to the new bid, sets highestBidderId to the
\* bidder and, unless the round ends, makes the next id after the bidder in
\* biddingOrder that is still in playersInRound the active player with a
\* fresh turn timer.
C24_AcceptedBidMovesTurn ==
  \A s \in Bidders :
     ( /\ exists /\ gameStatus = "AUCTION"
       /\ Admitted(World, s) /\ s = activePlayerId
       /\ Me(World, s).budget >= currentBid + getBidIncrement(currentBid) ) =>
        LET after == PlaceBid(World, s)
            k == IndexOf(biddingOrder, s)
            others == SubSeq(biddingOrder, k + 1, Len(biddingOrder))
                        \o SubSeq(biddingOrder, 1, k - 1)
            left == SelectSeq(others, LAMBDA id : Includes(playersInRound, id))
        IN /\ after.currentBid = currentBid + getBidIncrement(currentBid)
           /\ after.highestBidderId = s
           /\ after.gameStatus \in {"AUCTION", "ROUND_OVER"}
           /\ after.gameStatus = "AUCTION" =>
                /\ left # <<>>
                /\ after.activePlayerId = Head(left)
                /\ after.turnTimer.kind = "live"
                /\ after.roundTimers = roundTimers
                /\ after.playersInRound = playersInRound

\* three players are in the order, the one after the active player has left
\* the round, and the active player can bid: the turn will skip to the third
C24_Witness ==
  /\ gameStatus = "AUCTION" /\ Len(biddingOrder) = 3 /\ Len(playersInRound) = 2
  /\ highestBidderId # NoId /\ highestBidderId # activePlayerId
  /\ Includes(playersInRound, activePlayerId)
  /\ LET k == IndexOf(biddingOrder, activePlayerId)
     IN ~Includes(playersInRound, biddingOrder[(k % 3) + 1])
  /\ Me(World, activePlayerId).budget >= currentBid + getBidIncrement(currentBid)
  /\ PlaceBid(World, activePlayerId).gameStatus = "AUCTION"

----------------------------------------------------------------------------
(* Claims checked against the draw of the pools (specification SpecDraw) *)

\* C29: after a successful DrawPools, the sub-pools are pairwise disjoint,
\* each contains items of a single role, each role contributes exactly its
\* quota of distinct catalog items (17 batsmen, 15 bowlers, 20 all-rounders,
\* 8 wicket-keepers), and within a role every item of an earlier tier has an
\* overall rating at least that of every item of a later tier.
C29_DrawnPoolsPartitionBySortedRole ==
  (exists /\ gameStatus = "AUCTION_POOL_VIEW") =>
     LET quota == ("Batsman" :> 17) @@ ("Bowler" :> 15)
                    @@ ("All-Rounder" :> 20) @@ ("Wicket-Keeper" :> 8)
         tiersOf == ("Batsman" :> <<"Batsmen 1", "Batsmen 2">>)
                      @@ ("Bowler" :> <<"Bowlers 1", "Bowlers 2">>)
                      @@ ("All-Rounder" :> <<"All-Rounders 1", "All-Rounders 2",
                                             "All-Rounders 3">>)
                      @@ ("Wicket-Keeper" :> <<"Wicket-Keepers">>)
         names == UNION { Range(tiersOf[r]) : r \in DOMAIN tiersOf }
         itemsOf(r) == UNION { Range(subPools[n]) : n \in Range(tiersOf[r]) }
     IN /\ DOMAIN subPools = names
        /\ Range(subPoolOrder) = names /\ Len(subPoolOrder) = Cardinality(names)
        /\ \A n1, n2 \in names :
             n1 # n2 => Range(subPools[n1]) \cap Range(subPools[n2]) = {}
        /\ \A n \in names : \A i, j \in DOMAIN subPools[n] :
             i # j => subPools[n][i].id # subPools[n][j].id
        /\ \A r \in DOMAIN quota :
             /\ \A x \in itemsOf(r) : x.role = r
             /\ itemsOf(r) \subseteq Range(cricketersMasterList)
             /\ Cardinality(itemsOf(r)) = quota[r]
             /\ SumSeq([k \in DOMAIN tiersOf[r] |-> Len(subPools[tiersOf[r][k]])]) = quota[r]
             /\ \A k1, k2 \in DOMAIN tiersOf[r] :
                  k1 < k2 =>
                    \A x \in Range(subPools[tiersOf[r][k1]]) :
                       \A y \in Range(subPools[tiersOf[r][k2]]) : x.overall >= y.overall

\* pools have been drawn that leave a batsman of the catalog out and whose
\* two batsmen tiers meet at a pair of equal ratings
C29_Witness ==
  /\ gameStatus = "AUCTION_POOL_VIEW" /\ Len(players) = 2
  /\ \E x \in Range(cricketersMasterList) :
       x.role = "Batsman" /\ x \notin Range(auctionPool)
  /\ subPools["Batsmen 1"][8].overall = subPools["Batsmen 2"][1].overall
  /\ subPools["Batsmen 1"][8].id > subPools["Batsmen 2"][1].id

----------------------------------------------------------------------------
(* Claims checked against the first round with two tiers (specification SpecTwoTier) *)

\* C30: when the second round is built, each role with at least one unsold
\* item gets exactly one sub-pool holding exactly that role's unsold items in
\* the order they went unsold, roles with no unsold item get no sub-pool, and
\* nothing is re-sampled or re-sorted. The order in which items went unsold
\* is the order of the UNSOLD entries of the history.
C30_SecondRoundPoolsFromUnsold ==
  [][(~isSecondRound /\ isSecondRound' /\ gameStatus' = "SUBPOOL_BREAK") =>
       LET entries == SelectSeq(auctionHistory, LAMBDA h : h.winnerId = UNSOLD)
           wentUnsold(r) ==
             LET es == SelectSeq(entries, LAMBDA h : h.cricketer.role = r)
             IN [i \in DOMAIN es |-> es[i].cricketer]
           poolOf == ("Batsman" :> "Unsold Batsmen") @@ ("Bowler" :> "Unsold Bowlers")
                       @@ ("All-Rounder" :> "Unsold All-Rounders")
                       @@ ("Wicket-Keeper" :> "Unsold Wicket-Keepers")
           roles == { r \in DOMAIN poolOf : wentUnsold(r) # <<>> }
       IN /\ DOMAIN subPools' = { poolOf[r] : r \in roles }
          /\ Range(subPoolOrder') = DOMAIN subPools'
          /\ Len(subPoolOrder') = Cardinality(roles)
          /\ \A r \in roles : subPools'[poolOf[r]] = wentUnsold(r)
          /\ unsoldPool' = unsoldPool /\ auctionPool' = auctionPool]_vars

\* the second round has just been built from two unsold batsmen, the one of
\* the first tier first, and a bowler that was sold
C30_Witness ==
  /\ isSecondRound /\ gameStatus = "SUBPOOL_BREAK"
  /\ currentSubPoolName = "--- UNSOLD ROUND ---"
  /\ DOMAIN subPools = {"Unsold Batsmen"}
  /\ Len(subPools["Unsold Batsmen"]) = 2
  /\ subPools["Unsold Batsmen"][1].overall > subPools["Unsold Batsmen"][2].overall
  /\ \E i \in DOMAIN players : players[i].squad # <<>>

----------------------------------------------------------------------------
(* Claims checked against the connections of a lobby (specification SpecConn) *)

\* C40: when a session re-joins a room on a new connection while its old
\* connection is still open, the later close of the old connection does not
\* remove that player from the room nor detach the new connection from the
\* room's client table.
C40_OldConnectionCloseIsHarmless ==
  \A s \in Sessions : \A old, new \in 1..NumConns :
     ( /\ exists /\ old # new /\ HasPlayer(players, s)
       /\ Lookup(userSessionId, old) = s /\ Lookup(userSessionId, new) = s
       /\ Lookup(clients, s) = new ) =>
        LET after == OnCloseOf(World, old)
        IN /\ after.exists
           /\ HasPlayer(after.players, s)
           /\ Lookup(after.clients, s) = new

====
